---- MODULE Spec2Model ----
(***************************************************************************)
(* A model of pysg (src/pysg.py): the WhatsApp log normalizer, the alias   *)
(* resolver and the analyzers of the statistics engine.                    *)
(*                                                                         *)
(* Each function of the program is modelled by its own group of variables  *)
(* and its own specification (SpecNorm, SpecDedup, ...), whose Init draws  *)
(* the function's input from a bounded set and whose actions are the steps *)
(* of the function's loop.  The groups that a specification does not use   *)
(* stay at their idle value.                                               *)
(*                                                                         *)
(* Text is a sequence of tokens.  A token is one character, except that a  *)
(* whole match of the timestamp pattern of re_checknewline and each of the *)
(* marker phrases searched by normalize_whatsapp_line is one token: the    *)
(* program only slices a timestamp as a whole ([dstart:dend]) and only     *)
(* searches the marker phrases as a whole, so every offset the program     *)
(* computes keeps its meaning.                                             *)
(***************************************************************************)
EXTENDS Integers, Sequences, FiniteSets, TLC

VARIABLES
    \* normalize_whatsapp
    chatlog,         \* the lines of the input file
    lineno,          \* number of lines the for loop has consumed
    chatnormalized,  \* the list that is returned
    parsedmsg,       \* the pending message: "" (EmptyStr) or [date, user, mtype, content]
    normpc,          \* "loop", "returned" or "raised"
    \* dedup_usernames
    chatparsed,      \* the list of rows [date, user, mtype, content], rewritten in place
    useraliases,     \* None or the alias dict, as its items in iteration order
    dedupcalls,      \* number of calls of dedup_usernames made on chatparsed
    chatparsed0,     \* chatparsed as it was before the first call
    chatparsed1,     \* chatparsed as the first call left it
    \* calc_monologues
    monousers,       \* the 'user' column of dfchat; row i has content i
    monoidx,         \* number of rows the for loop has consumed
    lastuser,        \* None (NoUser) or the sender of the previous row
    monocounter,
    thismonologue,   \* the contents of the current run (unbound before the first row)
    monologues,      \* user -> [longest |-> [length, message], count, random]
    randmonologues,  \* user -> list of the runs counted for the user
    monopc,          \* "loop", "select" or "done"
    \* calc_mostactive
    dfactive,        \* dfchat as the number of rows per (user, hour of the index)
    activehr,        \* number of iterations of the first loop (line 474) made
    active,          \* the dict that is returned
    activeleft,      \* the users the second loop (line 500) has still to visit
    activepc,        \* "group", "share" or "done"
    \* calc_lonely
    dflonely,        \* dfchat: rows [date, user, mtype, content]; row i has content i
    dfchat_sub,      \* the rows of type message (line 858)
    timing,          \* the gaps between them, in seconds (line 859)
    message_gap,     \* line 865
    lonely_msg_idx,  \* the part of lonely_msg_idx the loop of line 872 has visited
    lonely,          \* date -> [user, message, gapbefore, gapafter]
    lastwords,       \* the dict last: user -> [count, random]
    firstwords,      \* the dict first: user -> [count, random]
    wordsidx,        \* number of iterations of the loop of line 884 made
    lonelypc,        \* "start", "lonely", "words", "choose" or "done"
    \* calc_timing
    dftiming,        \* dfchat: rows [date, user], dates in seconds
    timingk,         \* number of iterations of the loop of line 749 made
    timing_hist_users,
    timing_hist_bins,   \* None (NoBins) or the list of bin starts
    timing_hist_counts,
    chat_timing,     \* bin start -> user -> count
    timingpc,        \* "loop" or "done"
    \* calc_stats_per_tf
    dftf,            \* the index of dfchat: the dates of the rows, in hours, ascending
    timeframes,      \* the requested windows, in days; line 969 on, the list of line 969
    tfk,             \* number of iterations of the loop of line 973 made
    last_tf_real,    \* None (NoTf) or the day count of the last computed window
    allstats,        \* tf_real -> the view that calc_stats was given
    statscalls,      \* the tf_real of every call of calc_stats, in order
    tfpc,            \* "start", "loop", "done" or "raised"
    \* main and parse_log
    cfgfile,         \* args.config: None (NoPath) or a path
    cfgdisk,         \* what the path holds: Missing, or what yaml.safe_load gives
    parsecfg,        \* what load_config returned
    rawlog,          \* the lines of the file args.chatlog
    paliases,        \* the parameter useraliases of parse_log
    pnormalized,     \* chatnormalized of parse_log
    dfchat,          \* the table: rows [date, user, mtype, content, words]
    shouting,        \* shout_u_out: user -> [num, den], the quotient num / den
    asking,          \* ask_u_out, likewise
    totals,          \* the dict calc_total_stats returns
    network,         \* the dict calc_network returns
    debuglog,        \* the messages handed to logging.debug by mk_dataframe
    mainerr,         \* the exception that ended the run, or NoError
    mainpc,          \* the call that comes next, "done" or "raised"
    \* normalize_whatsapp, called with parsedlogfile
    wchatlog,        \* the lines of the input file
    wlineno,         \* number of lines the for loop has consumed
    wnormalized,     \* chatnormalized
    wparsedmsg,      \* parsedmsg
    wfile,           \* what has been written to parsedlogfile, one item per write
    wfaults,         \* number of writes that failed
    wpc,             \* "loop", "returned" or "raised"
    \* normalize_whatsapp_line, on one line
    lineparts,       \* the line r, as the parts it is written from
    lineout,         \* the list [datestr, userstr, mtype, msgstr] that is returned
    linepc           \* "call" or "done"

normVars == <<chatlog, lineno, chatnormalized, parsedmsg, normpc>>
dedupVars == <<chatparsed, useraliases, dedupcalls, chatparsed0, chatparsed1>>

monoVars == <<monousers, monoidx, lastuser, monocounter, thismonologue,
              monologues, randmonologues, monopc>>

activeVars == <<dfactive, activehr, active, activeleft, activepc>>

lonelyVars == <<dflonely, dfchat_sub, timing, message_gap, lonely_msg_idx, lonely, lastwords, firstwords,
                wordsidx, lonelypc>>

timingVars == <<dftiming, timingk, timing_hist_users, timing_hist_bins,
                timing_hist_counts, chat_timing, timingpc>>

tfVars == <<dftf, timeframes, tfk, last_tf_real, allstats, statscalls, tfpc>>

mainVars == <<cfgfile, cfgdisk, parsecfg, rawlog, paliases, pnormalized, dfchat,
              shouting, asking, totals, network, debuglog, mainerr, mainpc>>

sinkVars == <<wchatlog, wlineno, wnormalized, wparsedmsg, wfile, wfaults, wpc>>

lineVars == <<lineparts, lineout, linepc>>

vars == <<normVars, dedupVars, monoVars, activeVars, lonelyVars, timingVars, tfVars,
          mainVars, sinkVars, lineVars>>

\* what each function leaves alone: the variables of the other functions
notNorm ==
    <<dedupVars, monoVars, activeVars, lonelyVars, timingVars, tfVars, mainVars, sinkVars, lineVars>>
notDedup ==
    <<normVars, monoVars, activeVars, lonelyVars, timingVars, tfVars, mainVars, sinkVars, lineVars>>
notMono ==
    <<normVars, dedupVars, activeVars, lonelyVars, timingVars, tfVars, mainVars, sinkVars, lineVars>>
notActive ==
    <<normVars, dedupVars, monoVars, lonelyVars, timingVars, tfVars, mainVars, sinkVars, lineVars>>
notLonely ==
    <<normVars, dedupVars, monoVars, activeVars, timingVars, tfVars, mainVars, sinkVars, lineVars>>
notTiming ==
    <<normVars, dedupVars, monoVars, activeVars, lonelyVars, tfVars, mainVars, sinkVars, lineVars>>
notMain ==
    <<normVars, dedupVars, monoVars, activeVars, lonelyVars, timingVars, tfVars, sinkVars, lineVars>>
notSink ==
    <<normVars, dedupVars, monoVars, activeVars, lonelyVars, timingVars, tfVars, mainVars, lineVars>>
notLine ==
    <<normVars, dedupVars, monoVars, activeVars, lonelyVars, timingVars, tfVars,
      mainVars, sinkVars>>
notTf ==
    <<normVars, dedupVars, monoVars, activeVars, lonelyVars, timingVars, mainVars, sinkVars, lineVars>>

----------------------------------------------------------------------------
(* Python helpers on sequences, 0-based as in the source.                  *)

Min(a, b) == IF a < b THEN a ELSE b
Max(a, b) == IF a > b THEN a ELSE b

\* seq[i] with a 0-based index
At(s, i) == s[i + 1]

\* a slice bound as Python clamps it: negative bounds count from the end
ClampIdx(s, i) == IF i < 0 THEN Max(0, Len(s) + i) ELSE Min(i, Len(s))

\* s[a:b]
Slice(s, a, b) ==
    LET lo == ClampIdx(s, a)
        hi == ClampIdx(s, b)
    IN  IF hi <= lo THEN <<>> ELSE SubSeq(s, lo + 1, hi)

\* s[a:]
SliceFrom(s, a) == Slice(s, a, Len(s))

\* whether p occurs in s at 0-based offset i
OccursAt(s, p, i) ==
    /\ i >= 0
    /\ i + Len(p) <= Len(s)
    /\ \A k \in 1..Len(p) : s[i + k] = p[k]

\* s.find(p, start): the lowest offset >= start at which p occurs, else -1
Find(s, p, start) ==
    LET hits == {i \in Max(0, start)..Len(s) : OccursAt(s, p, i)}
    IN  IF hits = {} THEN -1 ELSE CHOOSE i \in hits : \A j \in hits : i <= j

\* s.replace(c, "") for a single token c
RECURSIVE RemoveTok(_, _)
RemoveTok(s, c) ==
    IF s = <<>> THEN <<>>
    ELSE IF Head(s) = c THEN RemoveTok(Tail(s), c)
         ELSE <<Head(s)>> \o RemoveTok(Tail(s), c)

\* s.replace(c, d) for single tokens c, d
ReplaceTok(s, c, d) == [i \in 1..Len(s) |-> IF s[i] = c THEN d ELSE s[i]]

Whitespace == {" ", "\n", "\t", "\\xa0"}

\* s.rstrip(chars)
RECURSIVE RStripSet(_, _)
RStripSet(s, chars) ==
    IF s # <<>> /\ s[Len(s)] \in chars
    THEN RStripSet(SubSeq(s, 1, Len(s) - 1), chars)
    ELSE s

\* s.lstrip(chars)
RECURSIVE LStripSet(_, _)
LStripSet(s, chars) ==
    IF s # <<>> /\ Head(s) \in chars THEN LStripSet(Tail(s), chars) ELSE s

\* s.strip(chars)
StripSet(s, chars) == LStripSet(RStripSet(s, chars), chars)

\* s.rstrip()
RStrip(s) == RStripSet(s, Whitespace)

----------------------------------------------------------------------------
(* normalize_whatsapp_line                                                 *)

\* the tokens that stand for a match of re_checknewline
Timestamps == {"T1", "T2"}

\* re_checknewline.search(r): the offset of the first match, or -1.  The
\* pattern is searched anywhere in the line, not only at its start.
SearchDate(r) ==
    LET hits == {i \in 0..(Len(r) - 1) : At(r, i) \in Timestamps}
    IN  IF hits = {} THEN -1 ELSE CHOOSE i \in hits : \A j \in hits : i <= j

\* The rules of the if/elif chain, in order.  pat is the text whose position
\* is compared with dend, kw the text from which the content starts,
\* nocolon whether the rule also asks r.find(":", ustart) == -1, and shape
\* how user and content are cut: "kw" (user up to pat, content from kw),
\* "colonkw" (user up to the colon, content from kw), "colon" (user up to
\* the colon, content two past the colon).
Rules == <<
    [pat |-> <<" ", "changed the subject to">>, kw |-> <<"changed the subject to">>,
     mtype |-> "subject", nocolon |-> FALSE, shape |-> "kw"],
    [pat |-> <<" ", "created">>, kw |-> <<"created">>,
     mtype |-> "create", nocolon |-> TRUE, shape |-> "kw"],
    [pat |-> <<" ", "changed the group icon">>, kw |-> <<"changed the group icon">>,
     mtype |-> "icon", nocolon |-> FALSE, shape |-> "kw"],
    [pat |-> <<" ", "deleted the group icon">>, kw |-> <<"deleted the group icon">>,
     mtype |-> "icon", nocolon |-> FALSE, shape |-> "kw"],
    [pat |-> <<" ", "changed this group's icon">>, kw |-> <<"changed this group's icon">>,
     mtype |-> "icon", nocolon |-> FALSE, shape |-> "kw"],
    [pat |-> <<" ", "deleted this group's icon">>, kw |-> <<"deleted this group's icon">>,
     mtype |-> "icon", nocolon |-> FALSE, shape |-> "kw"],
    [pat |-> <<" ", "added">>, kw |-> <<"added">>,
     mtype |-> "join", nocolon |-> TRUE, shape |-> "kw"],
    [pat |-> <<" ", "joined">>, kw |-> <<"joined">>,
     mtype |-> "join", nocolon |-> TRUE, shape |-> "kw"],
    [pat |-> <<" ", "left">>, kw |-> <<"left">>,
     mtype |-> "leave", nocolon |-> TRUE, shape |-> "kw"],
    [pat |-> <<"'s security code changed">>, kw |-> <<"'s security code changed">>,
     mtype |-> "seccode", nocolon |-> FALSE, shape |-> "colonkw"],
    [pat |-> <<"Messages to this group are now secured with end-to-end encryption.">>,
     kw |-> <<"Messages to this group are now secured with end-to-end encryption.">>,
     mtype |-> "secured", nocolon |-> FALSE, shape |-> "colonkw"],
    [pat |-> <<"image omitted">>, kw |-> <<>>,
     mtype |-> "image", nocolon |-> FALSE, shape |-> "colon"],
    [pat |-> <<"GIF omitted">>, kw |-> <<>>,
     mtype |-> "gif", nocolon |-> FALSE, shape |-> "colon"],
    [pat |-> <<"video omitted">>, kw |-> <<>>,
     mtype |-> "video", nocolon |-> FALSE, shape |-> "colon"],
    [pat |-> <<"audio omitted">>, kw |-> <<>>,
     mtype |-> "audio", nocolon |-> FALSE, shape |-> "colon"],
    [pat |-> <<"sticker omitted">>, kw |-> <<>>,
     mtype |-> "sticker", nocolon |-> FALSE, shape |-> "colon"],
    [pat |-> <<"document omitted">>, kw |-> <<>>,
     mtype |-> "document", nocolon |-> FALSE, shape |-> "colon"]
>>

\* the else branch: a regular message
DefaultRule == [pat |-> <<>>, kw |-> <<>>, mtype |-> "message",
                nocolon |-> FALSE, shape |-> "colon"]

\* the condition of a branch without its test for a colon
RuleFiresOnMarkerAlone(rule, r, dend, ustart) == Find(r, rule.pat, 0) > dend
\* the condition of one branch of the chain
RuleFires(rule, r, dend, ustart) ==
    /\ Find(r, rule.pat, 0) > dend
    /\ rule.nocolon => Find(r, <<":">>, ustart) = -1

\* the first branch of the chain whose condition holds
RECURSIVE FirstRule(_, _, _, _)
FirstRule(k, r, dend, ustart) ==
    IF k > Len(Rules) THEN DefaultRule
    ELSE IF RuleFires(Rules[k], r, dend, ustart) THEN Rules[k]
         ELSE FirstRule(k + 1, r, dend, ustart)

\* the characters stripped from the ends of userstr, and the no-break space
DirectionalMarks == {"\\u202a", "\\u202c"}
NoBreakSpace == "\\xa0"

normalize_whatsapp_line(r, dstart, dend, ustart) ==
    LET rule    == FirstRule(1, r, dend, ustart)
        colon   == Find(r, <<":">>, ustart)
        datestr == Slice(r, dstart, dend)
        userstr == IF rule.shape = "kw"
                   THEN Slice(r, ustart, Find(r, rule.pat, ustart))
                   ELSE Slice(r, ustart, colon)
        msgstr  == IF rule.shape = "colon"
                   THEN SliceFrom(r, colon + 2)
                   ELSE SliceFrom(r, Find(r, rule.kw, dend))
    IN  <<datestr,
          ReplaceTok(StripSet(userstr, DirectionalMarks), NoBreakSpace, " "),
          rule.mtype,
          msgstr>>

----------------------------------------------------------------------------
(* normalize_whatsapp, called without parsedlogfile                        *)

\* the initial value of parsedmsg, the empty string
EmptyStr == <<>>

LeftToRightMark == "\\u200e"

\* the lines the input files of the model are made of
LineA    == <<"T1", ":", " ", "A", ":", " ", "a", " ", "\n">>
LineB    == <<"T2", ":", " ", "B", ":", " ", "c", "\n">>
LineCont == <<"b", "\n">>
LineBlank == <<"\n">>
LineJoin == <<"T2", ":", " ", "A", " ", "added", " ", "B", "\n">>
LineMark == <<LeftToRightMark, "[", "T1", "]", " ", "B", ":", " ", "image omitted", "\n">>
\* a line of a message body that quotes a timestamp
LineQuote == <<"s", "e", "e", " ", "T1", "\n">>

LineSet == {LineA, LineB, LineCont, LineBlank, LineJoin, LineMark, LineQuote}

\* the longest input file of the model, in lines
MaxLines == 4

RECURSIVE SeqsUpTo(_, _)
SeqsUpTo(S, n) ==
    IF n = 0 THEN {<<>>}
    ELSE LET shorter == SeqsUpTo(S, n - 1)
         IN  shorter \cup {Append(s, x) : s \in {t \in shorter : Len(t) = n - 1}, x \in S}

InitNorm ==
    /\ chatlog \in SeqsUpTo(LineSet, MaxLines)
    /\ lineno = 0
    /\ chatnormalized = <<>>
    /\ parsedmsg = EmptyStr
    /\ normpc = "loop"

IdleNorm ==
    /\ chatlog = <<>>
    /\ lineno = 0
    /\ chatnormalized = <<>>
    /\ parsedmsg = EmptyStr
    /\ normpc = "idle"

\* the line the loop reads next, with the left-to-right marks removed
NextLine == RemoveTok(chatlog[lineno + 1], LeftToRightMark)

\* the list after "if (parsedmsg): chatnormalized.append(parsedmsg)"
FlushPending(out, pending) ==
    IF pending # EmptyStr THEN Append(out, pending) ELSE out

\* one iteration of the loop on a line that holds a timestamp
NewMessageLine ==
    /\ normpc = "loop"
    /\ lineno < Len(chatlog)
    /\ SearchDate(NextLine) # -1
    /\ LET r == NextLine
           dstart == SearchDate(r)
           dend == dstart + 1
       IN  /\ chatnormalized' = FlushPending(chatnormalized, parsedmsg)
           /\ parsedmsg' = normalize_whatsapp_line(r, dstart, dend, dend + 2)
    /\ lineno' = lineno + 1
    /\ UNCHANGED <<chatlog, normpc, notNorm>>

\* one iteration of the loop on a line without timestamp, a message pending
ContinuationLine ==
    /\ normpc = "loop"
    /\ lineno < Len(chatlog)
    /\ SearchDate(NextLine) = -1
    /\ parsedmsg # EmptyStr
    /\ parsedmsg' = [parsedmsg EXCEPT ![4] = RStrip(parsedmsg[4]) \o NextLine]
    /\ lineno' = lineno + 1
    /\ UNCHANGED <<chatlog, chatnormalized, normpc, notNorm>>

\* a line without timestamp while parsedmsg is still "": parsedmsg[-1]
\* raises IndexError, which nothing in normalize_whatsapp catches
ContinuationRaises ==
    /\ normpc = "loop"
    /\ lineno < Len(chatlog)
    /\ SearchDate(NextLine) = -1
    /\ parsedmsg = EmptyStr
    /\ normpc' = "raised"
    /\ UNCHANGED <<chatlog, lineno, chatnormalized, parsedmsg, notNorm>>

\* the loop is exhausted: return chatnormalized
ReturnNormalized ==
    /\ normpc = "loop"
    /\ lineno = Len(chatlog)
    /\ normpc' = "returned"
    /\ UNCHANGED <<chatlog, lineno, chatnormalized, parsedmsg, notNorm>>

NextNorm ==
    \/ NewMessageLine
    \/ ContinuationLine
    \/ ContinuationRaises
    \/ ReturnNormalized

\* number of lines of the file in which re_checknewline finds a timestamp
RECURSIVE TimestampLines(_)
TimestampLines(file) ==
    IF file = <<>> THEN 0
    ELSE (IF SearchDate(RemoveTok(Head(file), LeftToRightMark)) # -1 THEN 1 ELSE 0)
         + TimestampLines(Tail(file))

\* C1: once normalize_whatsapp has consumed the last line and returned, the
\* number of returned events equals the number of timestamp-bearing lines
\* (the event still pending at end of input included).
C1_EveryStartedEventReturned ==
    normpc = "returned" => Len(chatnormalized) = TimestampLines(chatlog)

\* C2: for the lines [LineA (body "a "), "b", LineB (body "c")] the result
\* is exactly two events, the first with body "a" directly followed by "b",
\* the second with body "c".
C2_ContinuationMerge ==
    (chatlog = <<LineA, LineCont, LineB>> /\ normpc = "returned") =>
        /\ Len(chatnormalized) = 2
        /\ RStrip(chatnormalized[1][4]) = <<"a", "b">>
        /\ RStrip(chatnormalized[2][4]) = <<"c">>

\* C3: a file that begins with lines without timestamp never ends in the
\* error state, and once returned none of its events holds a leading line;
\* a file of zero lines returns the empty sequence.
C3_LeadingContinuationTolerated ==
    /\ (chatlog # <<>> /\ SearchDate(RemoveTok(chatlog[1], LeftToRightMark)) = -1)
           => normpc # "raised"
    /\ (chatlog = <<>> /\ normpc = "returned") => chatnormalized = <<>>

\* whether the line begins with a timestamp: at its start, or after the
\* bracket that opens the format of 2019
LeadingTimestamp(r) ==
    \/ SearchDate(r) = 0
    \/ SearchDate(r) = 1 /\ r[1] = "["

RECURSIVE LeadingLines(_)
LeadingLines(file) ==
    IF file = <<>> THEN 0
    ELSE (IF LeadingTimestamp(RemoveTok(Head(file), LeftToRightMark)) THEN 1 ELSE 0)
         + LeadingLines(Tail(file))

\* C22: in a file whose first line begins with a timestamp, the events
\* started so far, the pending one included, are as many as the consumed
\* lines that begin with a timestamp; a line that holds a timestamp only
\* later in its text starts no event and goes into the pending one.
C22_OnlyLeadingTimestampStarts ==
    (/\ normpc \in {"loop", "returned"}
     /\ chatlog # <<>>
     /\ LeadingLines(<<Head(chatlog)>>) = 1) =>
        Len(chatnormalized) + (IF parsedmsg = EmptyStr THEN 0 ELSE 1)
            = LeadingLines(SubSeq(chatlog, 1, lineno))

----------------------------------------------------------------------------
(* normalize_whatsapp_line on one line, called as normalize_whatsapp calls  *)
(* it: dstart and dend from the match of re_checknewline, ustart = dend+2. *)

\* what the text after the sender is made of, and its largest length
BodyTokens ==
    {"x", " ", ":", "added", "joined", "left", "created", "image omitted",
     "changed the subject to"}
MaxBody == 3

\* the lines: the timestamp in the format of 2013 or in brackets, a sender,
\* then ": " or a space, then the body
LineParts ==
    [bracket : BOOLEAN,
     sender : {<<"A">>, <<"A", " ", "B">>},
     colon : BOOLEAN,
     body : SeqsUpTo(BodyTokens, MaxBody)]

LineOf(parts) ==
    (IF parts.bracket THEN <<"[", "T1", "]", " ">> ELSE <<"T1", ":", " ">>)
        \o parts.sender
        \o (IF parts.colon THEN <<":", " ">> ELSE <<" ">>)
        \o parts.body \o <<"\n">>

InitLine ==
    /\ lineparts \in LineParts
    /\ lineout = <<>>
    /\ linepc = "call"

IdleLine ==
    /\ lineparts = <<>>
    /\ lineout = <<>>
    /\ linepc = "idle"

\* the call of line 137 or 161 on the line
ClassifyLine ==
    /\ linepc = "call"
    /\ LET r == LineOf(lineparts)
           dstart == SearchDate(r)
           dend == dstart + 1
       IN  lineout' = normalize_whatsapp_line(r, dstart, dend, dend + 2)
    /\ linepc' = "done"
    /\ UNCHANGED <<lineparts, notLine>>

NextLineCall == ClassifyLine

\* whether the token occurs in the text
Holds(text, tok) == \E i \in 1..Len(text) : text[i] = tok

\* C21: a line 'sender: body' whose body holds none of the markers of the
\* other rules is of type message with the text before the colon as its
\* sender, also when the body holds " added", " joined", " left" or
\* " created"; the rules create, join and leave fire only on a line with no
\* colon from the sender start on; a line that holds no marker at all is of
\* type message.
C21_SenderColonIsMessage ==
    linepc = "done" =>
        LET body == lineparts.body
            other == Holds(body, "image omitted") \/ Holds(body, "changed the subject to")
            four == \E tok \in {"added", "joined", "left", "created"} : Holds(body, tok)
        IN  /\ (lineparts.colon /\ ~other) =>
                   /\ lineout[3] = "message"
                   /\ lineout[2] = lineparts.sender
            /\ lineout[3] \in {"create", "join", "leave"} =>
                   ~lineparts.colon /\ ~Holds(body, ":")
            /\ (~other /\ ~four) => lineout[3] = "message"

\* C21 witness: a line 'sender: body' whose body holds " left" has been
\* classified as a message of the sender.
C21_Witness ==
    /\ linepc = "done"
    /\ lineparts.colon
    /\ \E i \in 2..Len(lineparts.body) :
           lineparts.body[i] = "left" /\ lineparts.body[i - 1] = " "
    /\ lineout[3] = "message"
    /\ lineout[2] = lineparts.sender

----------------------------------------------------------------------------
(* dedup_usernames                                                         *)

\* useraliases is None (given = FALSE) or a dict, held as its items in order
None == [given |-> FALSE, items |-> <<>>]
Dict(aliasitems) == [given |-> TRUE, items |-> aliasitems]

\* the sender names of the model
Names == {<<"A">>, <<"B">>, <<"C">>}

\* the longest chatparsed of the model, in rows
MaxRows == 2

\* how many times the model calls dedup_usernames on the same list
MaxDedupCalls == 2

\* the rows: the sender varies, the other three fields tell the rows apart
RowsOf(n) == [1..n -> Names]
MkRows(senders) ==
    [i \in 1..Len(senders) |->
        <<<<"T1">>, senders[i], IF i = 1 THEN "message" ELSE "image", <<"m", "\n">>>>]

\* the alias dicts: the keys are distinct names, each with a list of aliases.
\* A list of aliases is modelled by the set of its elements: the loop over
\* it stores the same primname for each, so order and repeats are immaterial.
RECURSIVE DictsOver(_)
DictsOver(keys) ==
    {<<>>} \cup
    UNION { {<<<<k, al>>>> \o d : al \in SUBSET Names, d \in DictsOver(keys \ {k})}
            : k \in keys }

AliasDicts == DictsOver(Names)

\* userdict: the loops of lines 350-353; a later item overwrites an earlier one
UserDictKeys(aliasitems) ==
    UNION {aliasitems[i][2] : i \in 1..Len(aliasitems)}
UserDict(aliasitems) ==
    [a \in UserDictKeys(aliasitems) |->
        LET last == CHOOSE i \in 1..Len(aliasitems) :
                        /\ a \in aliasitems[i][2]
                        /\ \A j \in 1..Len(aliasitems) : a \in aliasitems[j][2] => j <= i
        IN  aliasitems[last][1]]

\* a lookup that leaves every name as it is
LookupKeepsName(userdict, name) == name
\* userdict.get(name, name)
LookupPrimname(userdict, name) ==
    IF name \in DOMAIN userdict THEN userdict[name] ELSE name

\* the list as one call of dedup_usernames leaves it
DedupRows(rows, aliases) ==
    IF aliases = None THEN rows
    ELSE LET userdict == UserDict(aliases.items)
         IN  [i \in 1..Len(rows) |->
                 [rows[i] EXCEPT ![2] = LookupPrimname(userdict, rows[i][2])]]

InitDedup ==
    /\ \E n \in 0..MaxRows : \E senders \in RowsOf(n) : chatparsed = MkRows(senders)
    /\ useraliases \in {None} \cup {Dict(d) : d \in AliasDicts}
    /\ dedupcalls = 0
    /\ chatparsed0 = chatparsed
    /\ chatparsed1 = chatparsed

IdleDedup ==
    /\ chatparsed = <<>>
    /\ useraliases = None
    /\ dedupcalls = 0
    /\ chatparsed0 = <<>>
    /\ chatparsed1 = <<>>

\* one call dedup_usernames(chatparsed, useraliases)
DedupUsernames ==
    /\ dedupcalls < MaxDedupCalls
    /\ chatparsed' = DedupRows(chatparsed, useraliases)
    /\ chatparsed1' = IF dedupcalls = 0 THEN chatparsed' ELSE chatparsed1
    /\ dedupcalls' = dedupcalls + 1
    /\ UNCHANGED <<useraliases, chatparsed0, notDedup>>

NextDedup == DedupUsernames

Senders(rows) == [i \in 1..Len(rows) |-> rows[i][2]]

\* C4: whatever the alias map, the senders after a second call of
\* dedup_usernames are the senders after the first call.
C4_DedupIdempotent ==
    dedupcalls >= 2 => Senders(chatparsed) = Senders(chatparsed1)

\* the canonical names of the alias lists that hold the name
PrimnamesOf(aliases, name) ==
    {aliases.items[i][1] : i \in {j \in 1..Len(aliases.items) : name \in aliases.items[j][2]}}

\* C15: a call of dedup_usernames keeps the length and the order of the
\* list and the date, type and content of every row; a sender that is in no
\* alias list keeps its value, a sender that is in an alias list becomes the
\* canonical name of a list that holds it, and without an alias map the
\* list is unchanged.
C15_DedupOnlySenders ==
    dedupcalls >= 1 =>
        /\ Len(chatparsed1) = Len(chatparsed0)
        /\ \A i \in 1..Len(chatparsed0) :
               /\ chatparsed1[i][1] = chatparsed0[i][1]
               /\ chatparsed1[i][3] = chatparsed0[i][3]
               /\ chatparsed1[i][4] = chatparsed0[i][4]
               /\ IF PrimnamesOf(useraliases, chatparsed0[i][2]) = {}
                  THEN chatparsed1[i][2] = chatparsed0[i][2]
                  ELSE chatparsed1[i][2] \in PrimnamesOf(useraliases, chatparsed0[i][2])
        /\ useraliases = None => chatparsed1 = chatparsed0

\* C15 witness: a call with an alias map has rewritten the sender of one
\* row and left the sender of the other row, which is in no alias list.
C15_Witness ==
    /\ dedupcalls >= 1
    /\ useraliases # None
    /\ Len(chatparsed0) = 2
    /\ chatparsed1[1][2] # chatparsed0[1][2]
    /\ PrimnamesOf(useraliases, chatparsed0[2][2]) = {}
    /\ chatparsed1[2][2] = chatparsed0[2][2]

----------------------------------------------------------------------------
(* calc_monologues                                                         *)

MONOLOGUE_THRESHOLD == 5

NoUser == "None"
MonoUsers == {"A", "B"}
OtherOf(u) == IF u = "A" THEN "B" ELSE "A"

\* the longest run of one sender and the largest number of runs in the
\* tables of the model
MaxRunLen == 8
MaxRuns == 4

\* the user column made of maximal runs: the first of lens[1] rows by
\* first, the next of lens[2] rows by the other sender, and so on
RECURSIVE UsersOfRuns(_, _)
UsersOfRuns(first, lens) ==
    IF lens = <<>> THEN <<>>
    ELSE [i \in 1..Head(lens) |-> first] \o UsersOfRuns(OtherOf(first), Tail(lens))

EmptyDict == [u \in {} |-> 0]

\* d with d[k] set to v
DictSet(d, k, v) == [x \in (DOMAIN d) \cup {k} |-> IF x = k THEN v ELSE d[x]]

\* monologues[lastuser].get('longest', {'length': 0})['length']
LongestLength(mono, u) == IF u \in DOMAIN mono THEN mono[u].longest.length ELSE 0

\* the test that decides whether the run that just ended is counted
RunCounts(counter) == counter > MONOLOGUE_THRESHOLD

\* the body of "if (monocounter > MONOLOGUE_THRESHOLD)" on the run that
\* ended: st with the run recorded for st.lastuser
RecordRun(st) ==
    LET u == st.lastuser
        longest == IF st.monocounter > LongestLength(st.monologues, u)
                   THEN [length |-> Len(st.thismonologue), message |-> st.thismonologue]
                   ELSE st.monologues[u].longest
        count == (IF u \in DOMAIN st.monologues THEN st.monologues[u].count ELSE 0) + 1
        runs == IF u \in DOMAIN st.randmonologues THEN st.randmonologues[u] ELSE <<>>
    IN  [st EXCEPT
            !.monologues = DictSet(@, u, [longest |-> longest, count |-> count]),
            !.randmonologues = DictSet(@, u, Append(runs, st.thismonologue))]

\* one iteration of the for loop, on the row with content msgstr by userstr
MonoIter(st, msgstr, userstr) ==
    IF userstr = st.lastuser
    THEN [st EXCEPT !.monocounter = @ + 1,
                    !.thismonologue = Append(@, msgstr)]
    ELSE LET rec == IF RunCounts(st.monocounter) THEN RecordRun(st) ELSE st
         IN  [rec EXCEPT !.monocounter = 0,
                         !.thismonologue = <<msgstr>>,
                         !.lastuser = userstr]

\* the state before the loop (lines 418-422)
MonoStart ==
    [lastuser |-> NoUser, monocounter |-> 0, thismonologue |-> <<>>,
     monologues |-> EmptyDict, randmonologues |-> EmptyDict]

\* the state after the loop has consumed the first n rows of users
RECURSIVE MonoAfter(_, _)
MonoAfter(users, n) ==
    IF n = 0 THEN MonoStart ELSE MonoIter(MonoAfter(users, n - 1), n, users[n])

MonoNow ==
    [lastuser |-> lastuser, monocounter |-> monocounter,
     thismonologue |-> thismonologue, monologues |-> monologues,
     randmonologues |-> randmonologues]

InitMono ==
    /\ \E first \in MonoUsers : \E lens \in SeqsUpTo(1..MaxRunLen, MaxRuns) :
           monousers = UsersOfRuns(first, lens)
    /\ monoidx = 0
    /\ lastuser = MonoStart.lastuser
    /\ monocounter = MonoStart.monocounter
    /\ thismonologue = MonoStart.thismonologue
    /\ monologues = MonoStart.monologues
    /\ randmonologues = MonoStart.randmonologues
    /\ monopc = "loop"

IdleMono ==
    /\ monousers = <<>>
    /\ monoidx = 0
    /\ lastuser = NoUser
    /\ monocounter = 0
    /\ thismonologue = <<>>
    /\ monologues = EmptyDict
    /\ randmonologues = EmptyDict
    /\ monopc = "idle"

\* one iteration of the loop of line 425
MonoRow ==
    /\ monopc = "loop"
    /\ monoidx < Len(monousers)
    /\ LET st == MonoIter(MonoNow, monoidx + 1, monousers[monoidx + 1])
       IN  /\ lastuser' = st.lastuser
           /\ monocounter' = st.monocounter
           /\ thismonologue' = st.thismonologue
           /\ monologues' = st.monologues
           /\ randmonologues' = st.randmonologues
    /\ monoidx' = monoidx + 1
    /\ UNCHANGED <<monousers, monopc, notMono>>

\* the loop of line 425 is exhausted
MonoLoopEnds ==
    /\ monopc = "loop"
    /\ monoidx = Len(monousers)
    /\ monopc' = "select"
    /\ UNCHANGED <<monousers, monoidx, lastuser, monocounter, thismonologue,
                   monologues, randmonologues, notMono>>

\* lines 444-447: a random run for every user of monologues, then return
MonoSelectRandom ==
    /\ monopc = "select"
    /\ \E pick \in [DOMAIN monologues -> 1..Len(monousers)] :
           /\ \A u \in DOMAIN monologues : pick[u] <= Len(randmonologues[u])
           /\ monologues' =
                  [u \in DOMAIN monologues |->
                      [longest |-> monologues[u].longest,
                       count |-> monologues[u].count,
                       random |-> randmonologues[u][pick[u]]]]
    /\ monopc' = "done"
    /\ UNCHANGED <<monousers, monoidx, lastuser, monocounter, thismonologue,
                   randmonologues, notMono>>

NextMono ==
    \/ MonoRow
    \/ MonoLoopEnds
    \/ MonoSelectRandom

\* the maximal runs of the table, each as its list of contents
RowsFromTo(a, b) == [i \in 1..(b - a + 1) |-> a + i - 1]
IsRunStart(users, a) == a = 1 \/ users[a - 1] # users[a]
IsRunEnd(users, b) == b = Len(users) \/ users[b + 1] # users[b]
MaximalRuns(users) ==
    {RowsFromTo(ab[1], ab[2]) :
        ab \in {x \in (1..Len(users)) \X (1..Len(users)) :
                   /\ x[1] <= x[2]
                   /\ IsRunStart(users, x[1])
                   /\ IsRunEnd(users, x[2])
                   /\ \A k \in x[1]..x[2] : users[k] = users[x[1]]}}

\* whether the run was counted as a monologue of its sender
Counted(users, run) ==
    LET u == users[run[1]]
    IN  /\ u \in DOMAIN randmonologues
        /\ \E k \in 1..Len(randmonologues[u]) : randmonologues[u][k] = run

\* C5: a maximal run of exactly 5 messages is not counted as a monologue,
\* and a maximal run of exactly 6 messages that is followed by a message of
\* another sender is counted, once, for its sender.
C5_ThresholdBoundary ==
    monopc = "done" =>
        \A run \in MaximalRuns(monousers) :
            /\ Len(run) = 5 => ~Counted(monousers, run)
            /\ (Len(run) = 6 /\ run[Len(run)] < Len(monousers)) =>
                   /\ Counted(monousers, run)
                   /\ Cardinality({k \in 1..Len(randmonologues[monousers[run[1]]]) :
                          randmonologues[monousers[run[1]]][k] = run}) = 1

\* what calc_monologues would hold before the selection had a message by
\* some other sender followed the last row
MonoIfFollowed(users) ==
    MonoIter(MonoAfter(users, Len(users)), Len(users) + 1, "another sender")

\* C6: a run that ends at the last row is finalized exactly as if a message
\* by another sender had followed it: the counts, the longest runs and the
\* runs eligible as random example are those of the followed table.
C6_TrailingRunFinalized ==
    (monopc = "select" /\ monousers # <<>>) =>
        /\ monologues = MonoIfFollowed(monousers).monologues
        /\ randmonologues = MonoIfFollowed(monousers).randmonologues

\* the message count of the longest of a user's counted runs
LongestCounted(u) ==
    CHOOSE n \in {Len(randmonologues[u][k]) : k \in 1..Len(randmonologues[u])} :
        \A k \in 1..Len(randmonologues[u]) : Len(randmonologues[u][k]) <= n

\* C16: once calc_monologues has returned, for every user with a counted
\* monologue 'longest'.length is the largest message count among the user's
\* counted runs, 'count' is the number of those runs and 'random' is one of
\* them.
C16_LongestCountRandom ==
    monopc = "done" =>
        \A u \in DOMAIN monologues :
            /\ monologues[u].longest.length = LongestCounted(u)
            /\ monologues[u].count = Len(randmonologues[u])
            /\ \E k \in 1..Len(randmonologues[u]) :
                   monologues[u].random = randmonologues[u][k]

----------------------------------------------------------------------------
(* calc_mostactive                                                         *)
(* Of the three aggregates per user ('random', 'messages', 'wordsperline') *)
(* the model keeps 'messages', the only one the percentages read.          *)

ActiveUsers == {"A", "B"}

\* the hours of day at which the rows of the model are sent: both sides of
\* the 06:00 boundary, and one hour in each of the other two buckets
ActiveHours == {5, 6, 17, 23}

\* the largest number of rows that user A sends in one of these hours
MaxPerHour == 4

\* the values of hr in the loop of line 474; AllDay stands for 'allday'
AllDay == -1
HrLoop == <<AllDay, 0, 6, 12, 18>>
BucketStarts == <<0, 6, 12, 18>>

\* the key of active for hr: 'allday', or "{:02d}:00".format(hr)
HrKey(hr) == CASE hr = AllDay -> "allday"
               [] hr = 0 -> "00:00" [] hr = 6 -> "06:00"
               [] hr = 12 -> "12:00" [] hr = 18 -> "18:00"

\* the sum of f over the finite set S
RECURSIVE SumOver(_, _)
SumOver(S, f) ==
    IF S = {} THEN 0
    ELSE LET x == CHOOSE y \in S : TRUE
         IN  f[x] + SumOver(S \ {x}, f)

\* lines 475-480: the hours of the rows of dfchatsub
HoursOfSub(hr) ==
    IF hr = AllDay THEN ActiveHours
    ELSE {h \in ActiveHours : h >= hr /\ h < hr + 6}

\* lines 486-496: groupby('user') with len over the rows of dfchatsub; a
\* user without row in dfchatsub has no entry
GroupByUser(df, hr) ==
    LET n(u) == SumOver(HoursOfSub(hr), [h \in ActiveHours |-> df[<<u, h>>]])
    IN  [u \in {v \in ActiveUsers : n(v) > 0} |->
            [k \in {"messages"} |-> n(u)]]

\* Python's round() of the quotient n/d of two naturals: to the nearest
\* integer, a tie to the even one
Round(n, d) ==
    LET q == n \div d
        r == n % d
    IN  IF 2 * r < d THEN q
        ELSE IF 2 * r > d THEN q + 1
        ELSE IF q % 2 = 0 THEN q ELSE q + 1

\* active["hh:00"].get(user, {'messages': 0})['messages']
MessagesIn(act, hr, user) ==
    IF user \in DOMAIN act[HrKey(hr)] THEN act[HrKey(hr)][user]["messages"] ELSE 0

\* the share cut off instead of rounded
ActivityHrCutOff(act, hr, user) ==
    (100 * MessagesIn(act, hr, user)) \div act["allday"][user]["messages"]
\* line 527
ActivityHr(act, hr, user) ==
    Round(100 * MessagesIn(act, hr, user), act["allday"][user]["messages"])

\* lines 501-533: the loop over the four buckets, from its k-th iteration
\* on: acc holds maxval, maxidx, totalactivity and the user's entry
RECURSIVE BucketLoop(_, _, _, _)
BucketLoop(act, user, k, acc) ==
    IF k > Len(BucketStarts) THEN acc
    ELSE LET hr == BucketStarts[k]
             activityhr == ActivityHr(act, hr, user)
             larger == activityhr > acc.maxval
         IN  BucketLoop(act, user, k + 1,
                 [maxval |-> IF larger THEN activityhr ELSE acc.maxval,
                  maxidx |-> IF larger THEN HrKey(hr) ELSE acc.maxidx,
                  totalactivity |-> acc.totalactivity + activityhr,
                  entry |-> DictSet(acc.entry, HrKey(hr), activityhr)])

\* the difference taken the other way round
DeltaFixBySign(totalactivity) == totalactivity - 100
\* line 534
DeltaFix(totalactivity) == 100 - totalactivity

\* the correction put on the last bucket instead of the highest one
ShareOfUserLastBucket(act, user) ==
    LET acc == BucketLoop(act, user, 1,
                   [maxval |-> 0, maxidx |-> "00:00", totalactivity |-> 0,
                    entry |-> act["allday"][user]])
    IN  [acc.entry EXCEPT !["18:00"] = @ + DeltaFix(acc.totalactivity)]

\* lines 501-535: the entry of the user in active['allday'] after the
\* body of the second loop
ShareOfUser(act, user) ==
    LET acc == BucketLoop(act, user, 1,
                   [maxval |-> 0, maxidx |-> "00:00", totalactivity |-> 0,
                    entry |-> act["allday"][user]])
    IN  [acc.entry EXCEPT ![acc.maxidx] = @ + DeltaFix(acc.totalactivity)]

\* the tables of the model: A sends up to MaxPerHour rows in each hour, B
\* at most one, and the table has a row
ActiveTables ==
    {t \in {[uh \in ActiveUsers \X ActiveHours |->
                IF uh[1] = "A" THEN a[uh[2]] ELSE IF uh[2] \in b THEN 1 ELSE 0] :
             a \in [ActiveHours -> 0..MaxPerHour], b \in SUBSET ActiveHours} :
        \E uh \in ActiveUsers \X ActiveHours : t[uh] > 0}

InitActive ==
    /\ dfactive \in ActiveTables
    /\ activehr = 0
    /\ active = EmptyDict
    /\ activeleft = {}
    /\ activepc = "group"

IdleActive ==
    /\ dfactive = EmptyDict
    /\ activehr = 0
    /\ active = EmptyDict
    /\ activeleft = {}
    /\ activepc = "idle"

\* one iteration of the loop of line 474
ActiveGroup ==
    /\ activepc = "group"
    /\ activehr < Len(HrLoop)
    /\ LET hr == HrLoop[activehr + 1]
       IN  active' = DictSet(active, HrKey(hr), GroupByUser(dfactive, hr))
    /\ activehr' = activehr + 1
    /\ UNCHANGED <<dfactive, activeleft, activepc, notActive>>

\* the first loop is exhausted: the second starts on active['allday'].keys()
ActiveGrouped ==
    /\ activepc = "group"
    /\ activehr = Len(HrLoop)
    /\ activeleft' = DOMAIN active["allday"]
    /\ activepc' = "share"
    /\ UNCHANGED <<dfactive, activehr, active, notActive>>

\* one iteration of the loop of line 500.  The keys come in the order of
\* sort_values('mtype', ascending=False): most messages first, ties in
\* either order
ActiveShare ==
    /\ activepc = "share"
    /\ \E user \in activeleft :
           /\ \A v \in activeleft :
                  active["allday"][v]["messages"] <= active["allday"][user]["messages"]
           /\ active' = [active EXCEPT !["allday"][user] = ShareOfUser(active, user)]
           /\ activeleft' = activeleft \ {user}
    /\ UNCHANGED <<dfactive, activehr, activepc, notActive>>

\* the second loop is exhausted: return active
ActiveReturn ==
    /\ activepc = "share"
    /\ activeleft = {}
    /\ activepc' = "done"
    /\ UNCHANGED <<dfactive, activehr, active, activeleft, notActive>>

NextActive ==
    \/ ActiveGroup
    \/ ActiveGrouped
    \/ ActiveShare
    \/ ActiveReturn

\* the sum of the four percentages stored for the user
PercentSum(user) ==
    active["allday"][user]["00:00"] + active["allday"][user]["06:00"]
        + active["allday"][user]["12:00"] + active["allday"][user]["18:00"]

\* the sum of the four rounded shares of the user, before the correction
RoundedSum(user) ==
    ActivityHr(active, 0, user) + ActivityHr(active, 6, user)
        + ActivityHr(active, 12, user) + ActivityHr(active, 18, user)

\* C7: once calc_mostactive has returned, the four time-of-day percentages
\* of every user of the all-day aggregate sum to exactly 100.
C7_PercentagesSumTo100 ==
    activepc = "done" => \A user \in DOMAIN active["allday"] : PercentSum(user) = 100

\* C7 witness: calc_mostactive has returned and for some user the rounded
\* shares did not sum to 100, so the correction had to act.
C7_Witness ==
    /\ activepc = "done"
    /\ \E user \in DOMAIN active["allday"] :
           /\ RoundedSum(user) # 100
           /\ PercentSum(user) = 100

\* the rows of the user in the table whose hour is in the six hours from
\* start on, and all the rows of the user
BucketCount(user, start) ==
    SumOver({h \in ActiveHours : start <= h /\ h < start + 6},
            [h \in ActiveHours |-> dfactive[<<user, h>>]])
TotalCount(user) == SumOver(ActiveHours, [h \in ActiveHours |-> dfactive[<<user, h>>]])

\* round(100 * bucket_count / total_count)
RoundedShare(user, start) == Round(100 * BucketCount(user, start), TotalCount(user))

\* the bucket with the highest rounded share, the earliest one on ties
HighestBucket(user) ==
    CHOOSE s \in {0, 6, 12, 18} :
        \A t \in {0, 6, 12, 18} :
            \/ RoundedShare(user, t) < RoundedShare(user, s)
            \/ RoundedShare(user, t) = RoundedShare(user, s) /\ s <= t

\* C17: once calc_mostactive has returned, for every user the bucket with
\* the highest rounded share (the earliest on ties) holds its rounded share
\* plus 100 minus the sum of the four rounded shares, and each of the other
\* three buckets holds exactly round(100 * bucket_count / total_count).
C17_OnlyHighestBucketAdjusted ==
    activepc = "done" =>
        \A user \in DOMAIN active["allday"] :
            \A s \in {0, 6, 12, 18} :
                active["allday"][user][HrKey(s)] =
                    IF s = HighestBucket(user)
                    THEN RoundedShare(user, s) + 100
                             - (RoundedShare(user, 0) + RoundedShare(user, 6)
                                + RoundedShare(user, 12) + RoundedShare(user, 18))
                    ELSE RoundedShare(user, s)

\* C17 witness: calc_mostactive has returned for a user whose highest
\* rounded share is held by two buckets and whose rounded shares do not sum
\* to 100: the earlier of the two buckets was adjusted, the later was not.
C17_Witness ==
    /\ activepc = "done"
    /\ \E user \in DOMAIN active["allday"] :
           \E t \in {0, 6, 12, 18} :
               /\ t # HighestBucket(user)
               /\ RoundedShare(user, t) = RoundedShare(user, HighestBucket(user))
               /\ active["allday"][user][HrKey(t)] = RoundedShare(user, t)
               /\ active["allday"][user][HrKey(HighestBucket(user))]
                      # RoundedShare(user, HighestBucket(user))

\* C24: once calc_mostactive has returned, each of the four percentages of
\* every user is an integer from 0 to 100: the correction makes no bucket
\* negative and none larger than 100.
C24_PercentagesWithinRange ==
    activepc = "done" =>
        \A user \in DOMAIN active["allday"] :
            \A s \in {0, 6, 12, 18} :
                active["allday"][user][HrKey(s)] \in 0..100

\* C24 witness: calc_mostactive has returned for a user whose rounded
\* shares sum to more than 100, so that the correction lowered a bucket,
\* and who has a bucket at 0; and for a user with a bucket at 100.
C24_Witness ==
    /\ activepc = "done"
    /\ \E user \in DOMAIN active["allday"] :
           /\ RoundedSum(user) > 100
           /\ \E s \in {0, 6, 12, 18} : active["allday"][user][HrKey(s)] = 0
           /\ \A s \in {0, 6, 12, 18} : active["allday"][user][HrKey(s)] \in 0..100
    /\ \E user \in DOMAIN active["allday"] :
           \E s \in {0, 6, 12, 18} : active["allday"][user][HrKey(s)] = 100

----------------------------------------------------------------------------
(* calc_lonely                                                             *)
(* Dates are seconds; the index of the table is in chronological order.    *)

\* the number of messages kept by line 868
LONELY_TOP == 20
\* the silence of line 881, 3600*6 seconds
SILENCE == 21600

LonelyUsers == {"A", "B"}

\* the gaps between the rows the model draws freely: none, exactly the
\* silence of line 881, and one second more
TailGaps == {0, SILENCE, SILENCE + 1}
\* the sender and type of those rows
TailKinds == {<<"A", "message">>, <<"B", "message">>, <<"B", "image">>}

\* the largest number of freely drawn rows, and the number of rows of the
\* fixed conversation that may precede them: none, a few, or enough for
\* more than LONELY_TOP interior messages
MaxTail == 2
SmallFiller == 3
FillerRows == 22

\* the fixed conversation: messages by A and B in turn, row j+1 following
\* row j after j*600 seconds (date j*(j-1)/2 * 600), so that every message
\* of it has another isolation, all of them below the silence of line 881
Filler(n) ==
    [j \in 1..n |->
        [date |-> ((j * (j - 1)) \div 2) * 600,
         user |-> IF j % 2 = 1 THEN "A" ELSE "B",
         mtype |-> "message",
         content |-> j]]

\* rows appended to table, each after its gap
RECURSIVE AppendRows(_, _)
AppendRows(table, tail) ==
    IF tail = <<>> THEN table
    ELSE LET prev == IF table = <<>> THEN 0 ELSE table[Len(table)].date
             row == [date |-> prev + Head(tail)[1],
                     user |-> Head(tail)[2][1],
                     mtype |-> Head(tail)[2][2],
                     content |-> Len(table) + 1]
         IN  AppendRows(Append(table, row), Tail(tail))

LonelyTables ==
    {AppendRows(Filler(n), tail) :
        n \in {0, SmallFiller, FillerRows}, tail \in SeqsUpTo(TailGaps \X TailKinds, MaxTail)}

\* line 858: dfchat[dfchat['mtype'] == 'message']
IsMessage(row) == row.mtype = "message"
MessagesOf(df) == SelectSeq(df, IsMessage)

\* line 859: the differences of consecutive dates, in seconds
TimingOf(sub) == [k \in 1..(Len(sub) - 1) |-> sub[k + 1].date - sub[k].date]

\* the maximum of the two gaps instead of the minimum
MessageGapByMax(t) == [k \in 1..(Len(t) - 1) |-> Max(t[k], t[k + 1])]
\* line 865: the minimum of timing[:-1] and timing[1:], element by element
MessageGapOf(t) == [k \in 1..(Len(t) - 1) |-> Min(t[k], t[k + 1])]

\* the length of message_gap.argsort()[-20:]
TopLen(gaps) == Min(LONELY_TOP, Len(gaps))

\* round(seconds/3600., 2), in hundredths of an hour
HoursRounded(seconds) == Round(100 * seconds, 3600)

\* lines 873-878: the entry of lonely for the 0-based i of lonely_msg_idx
LonelyEntry(sub, t, i) ==
    [user |-> sub[i + 2].user,
     message |-> sub[i + 2].content,
     gapbefore |-> HoursRounded(t[i + 1]),
     gapafter |-> HoursRounded(t[i + 1])]

\* the 0-based k with timing[k] >= 3600*6, ascending
LastMsgIdxFromSilence(t) ==
    LET Long(k) == t[k + 1] >= SILENCE
        RECURSIVE Collect(_)
        Collect(k) == IF k >= Len(t) THEN <<>>
                      ELSE (IF Long(k) THEN <<k>> ELSE <<>>) \o Collect(k + 1)
    IN  Collect(0)

\* line 881: the 0-based k with timing[k] > 3600*6, ascending
LastMsgIdx(t) ==
    LET Long(k) == t[k + 1] > SILENCE
        RECURSIVE Collect(_)
        Collect(k) == IF k >= Len(t) THEN <<>>
                      ELSE (IF Long(k) THEN <<k>> ELSE <<>>) \o Collect(k + 1)
    IN  Collect(0)

\* lines 885-886 and 888-889: the count and the list of examples of the
\* user of row
CountWord(d, row) ==
    LET old == IF row.user \in DOMAIN d THEN d[row.user]
               ELSE [count |-> 0, random |-> <<>>]
    IN  DictSet(d, row.user, [count |-> old.count + 1,
                              random |-> Append(old.random, row.content)])

InitLonely ==
    /\ dflonely \in LonelyTables
    /\ dfchat_sub = <<>>
    /\ timing = <<>>
    /\ message_gap = <<>>
    /\ lonely_msg_idx = <<>>
    /\ lonely = EmptyDict
    /\ lastwords = EmptyDict
    /\ firstwords = EmptyDict
    /\ wordsidx = 0
    /\ lonelypc = "start"

IdleLonely ==
    /\ dflonely = <<>>
    /\ dfchat_sub = <<>>
    /\ timing = <<>>
    /\ message_gap = <<>>
    /\ lonely_msg_idx = <<>>
    /\ lonely = EmptyDict
    /\ lastwords = EmptyDict
    /\ firstwords = EmptyDict
    /\ wordsidx = 0
    /\ lonelypc = "idle"

\* lines 858-865
LonelyTiming ==
    /\ lonelypc = "start"
    /\ dfchat_sub' = MessagesOf(dflonely)
    /\ timing' = TimingOf(dfchat_sub')
    /\ message_gap' = MessageGapOf(timing')
    /\ lonelypc' = "lonely"
    /\ UNCHANGED <<dflonely, lonely_msg_idx, lonely, lastwords, firstwords,
                   wordsidx, notLonely>>

\* One iteration of the loop of line 872.  lonely_msg_idx is the reversed
\* tail of an ascending argsort of message_gap: its next element is an
\* index not yet visited whose message_gap is the largest of those left,
\* any of them when several are equal (argsort does not say which).
LonelyVisit ==
    /\ lonelypc = "lonely"
    /\ Len(lonely_msg_idx) < TopLen(message_gap)
    /\ LET left == (0..(Len(message_gap) - 1)) \
                       {lonely_msg_idx[k] : k \in 1..Len(lonely_msg_idx)}
           top == CHOOSE g \in {message_gap[j + 1] : j \in left} :
                      \A j \in left : message_gap[j + 1] <= g
       IN  \E i \in {j \in left : message_gap[j + 1] = top} :
               /\ lonely_msg_idx' = Append(lonely_msg_idx, i)
               /\ lonely' = DictSet(lonely, dfchat_sub[i + 2].date,
                                    LonelyEntry(dfchat_sub, timing, i))
    /\ UNCHANGED <<dflonely, dfchat_sub, timing, message_gap, lastwords,
                   firstwords, wordsidx, lonelypc, notLonely>>

\* the loop of line 872 is exhausted
LonelyVisited ==
    /\ lonelypc = "lonely"
    /\ Len(lonely_msg_idx) = TopLen(message_gap)
    /\ lonelypc' = "words"
    /\ UNCHANGED <<dflonely, dfchat_sub, timing, message_gap, lonely_msg_idx,
                   lonely, lastwords, firstwords, wordsidx, notLonely>>

\* one iteration of the loop of line 884
LonelyWord ==
    /\ lonelypc = "words"
    /\ LET idx == LastMsgIdx(timing)
       IN  /\ wordsidx < Len(idx)
           /\ lastwords' = CountWord(lastwords, dfchat_sub[idx[wordsidx + 1] + 1])
           /\ firstwords' = CountWord(firstwords, dfchat_sub[idx[wordsidx + 1] + 2])
    /\ wordsidx' = wordsidx + 1
    /\ UNCHANGED <<dflonely, dfchat_sub, timing, message_gap, lonely_msg_idx,
                   lonely, lonelypc, notLonely>>

\* the loop of line 884 is exhausted
LonelyWordsCounted ==
    /\ lonelypc = "words"
    /\ wordsidx = Len(LastMsgIdx(timing))
    /\ lonelypc' = "choose"
    /\ UNCHANGED <<dflonely, dfchat_sub, timing, message_gap, lonely_msg_idx,
                   lonely, lastwords, firstwords, wordsidx, notLonely>>

\* what random.choice may make of d: the list 'random' of every user
\* replaced by one element of it
RECURSIVE ChosenFrom(_)
ChosenFrom(d) ==
    IF DOMAIN d = {} THEN {EmptyDict}
    ELSE LET u == CHOOSE v \in DOMAIN d : TRUE
             rest == [v \in (DOMAIN d) \ {u} |-> d[v]]
         IN  {DictSet(c, u, [count |-> d[u].count, random |-> d[u].random[k]]) :
                 c \in ChosenFrom(rest), k \in 1..Len(d[u].random)}

\* lines 891-896: the random examples, then return
LonelyChoose ==
    /\ lonelypc = "choose"
    /\ lastwords' \in ChosenFrom(lastwords)
    /\ firstwords' \in ChosenFrom(firstwords)
    /\ lonelypc' = "done"
    /\ UNCHANGED <<dflonely, dfchat_sub, timing, message_gap, lonely_msg_idx,
                   lonely, wordsidx, notLonely>>

NextLonely ==
    \/ LonelyTiming
    \/ LonelyVisit
    \/ LonelyVisited
    \/ LonelyWord
    \/ LonelyWordsCounted
    \/ LonelyChoose

\* the isolation of the m-th (1-based) of the messages msgs: the smaller
\* of the gap before it and the gap after it
Isolation(msgs, m) ==
    Min(msgs[m].date - msgs[m - 1].date, msgs[m + 1].date - msgs[m].date)

\* the 1-based positions, among the messages, of the selected messages
SelectedMsgs == {lonely_msg_idx[k] + 2 : k \in 1..Len(lonely_msg_idx)}

\* C8: calc_lonely never selects the first or the last message, visits the
\* selected messages by descending isolation = min(gap before, gap after),
\* returns at most 20 of them, and leaves out no interior message that is
\* strictly more isolated than a selected one.
C8_LonelySelection ==
    lonelypc \in {"words", "choose", "done"} =>
        LET msgs == MessagesOf(dflonely)
            interior == 2..(Len(msgs) - 1)
            iso == [m \in interior |-> Isolation(msgs, m)]
            worst == IF SelectedMsgs = {} THEN 0
                     ELSE iso[lonely_msg_idx[Len(lonely_msg_idx)] + 2]
        IN  /\ SelectedMsgs \subseteq interior
            /\ Len(lonely_msg_idx) <= 20
            /\ Cardinality(DOMAIN lonely) <= 20
            /\ \A k \in 1..(Len(lonely_msg_idx) - 1) :
                   iso[lonely_msg_idx[k] + 2] >= iso[lonely_msg_idx[k + 1] + 2]
            /\ SelectedMsgs # {} =>
                   \A m \in interior \ SelectedMsgs : iso[m] <= worst
            /\ \A d \in DOMAIN lonely : \E sel \in SelectedMsgs :
                   msgs[sel].date = d /\ msgs[sel].content = lonely[d].message

\* C8 witness: calc_lonely has returned 20 messages of a table with more
\* than 20 interior messages, one of them left out.
C8_Witness ==
    /\ lonelypc = "done"
    /\ Len(lonely_msg_idx) = 20
    /\ (2..(Len(MessagesOf(dflonely)) - 1)) \ SelectedMsgs # {}

\* C18: for every message reported by calc_lonely, 'gapbefore' is the time
\* between the message and the message before it and 'gapafter' the time
\* between the message and the message after it, in hours; the two values
\* differ whenever the two gaps differ (by a hundredth of an hour or more).
C18_GapsBeforeAndAfter ==
    lonelypc = "done" =>
        LET msgs == MessagesOf(dflonely)
            before(m) == Round(100 * (msgs[m].date - msgs[m - 1].date), 3600)
            after(m) == Round(100 * (msgs[m + 1].date - msgs[m].date), 3600)
        IN  \A d \in DOMAIN lonely :
                /\ \E m \in SelectedMsgs :
                       /\ msgs[m].date = d
                       /\ msgs[m].content = lonely[d].message
                       /\ lonely[d].gapbefore = before(m)
                       /\ lonely[d].gapafter = after(m)
                /\ \A m \in SelectedMsgs :
                       (msgs[m].content = lonely[d].message /\ before(m) # after(m))
                           => lonely[d].gapbefore # lonely[d].gapafter

\* the 1-based positions k, among the messages, such that message k + 1
\* follows message k after strictly more than 6 hours
LongGaps(msgs) ==
    {k \in 1..(Len(msgs) - 1) : msgs[k + 1].date - msgs[k].date > 6 * 3600}

\* the count of the user in the dict first or last
WordCountOf(d, u) == IF u \in DOMAIN d THEN d[u].count ELSE 0

\* C19: once calc_lonely has returned, each user's 'last' count is the
\* number of gaps of strictly more than 6 hours that follow a message of
\* the user, each user's 'first' count the number of those that precede a
\* message of the user, both sums are the number of such gaps, a user with
\* no flagged message has no entry, and each retained example is the body
\* of one of the user's flagged messages.
C19_FirstAndLastWords ==
    lonelypc = "done" =>
        LET msgs == MessagesOf(dflonely)
            gaps == LongGaps(msgs)
            lastof(u) == {k \in gaps : msgs[k].user = u}
            firstof(u) == {k \in gaps : msgs[k + 1].user = u}
        IN  /\ DOMAIN lastwords = {u \in LonelyUsers : lastof(u) # {}}
            /\ DOMAIN firstwords = {u \in LonelyUsers : firstof(u) # {}}
            /\ \A u \in DOMAIN lastwords :
                   /\ lastwords[u].count = Cardinality(lastof(u))
                   /\ lastwords[u].random \in {msgs[k].content : k \in lastof(u)}
            /\ \A u \in DOMAIN firstwords :
                   /\ firstwords[u].count = Cardinality(firstof(u))
                   /\ firstwords[u].random \in {msgs[k + 1].content : k \in firstof(u)}
            /\ SumOver(LonelyUsers, [u \in LonelyUsers |-> WordCountOf(lastwords, u)])
                   = Cardinality(gaps)
            /\ SumOver(LonelyUsers, [u \in LonelyUsers |-> WordCountOf(firstwords, u)])
                   = Cardinality(gaps)

\* C19 witness: calc_lonely has returned for a table with a gap of exactly
\* 6 hours, which is not counted, and a gap of one second more, which is.
C19_Witness ==
    /\ lonelypc = "done"
    /\ \E k \in 1..Len(timing) : timing[k] = 6 * 3600
    /\ Cardinality(LongGaps(MessagesOf(dflonely))) = 1
    /\ SumOver(LonelyUsers, [u \in LonelyUsers |-> WordCountOf(lastwords, u)]) = 1

----------------------------------------------------------------------------
(* calc_timing                                                             *)

\* line 755: a user with fewer messages is skipped
TIMING_MIN_MESSAGES == 100
\* line 770: np.histogram(timing, bins=30, range=(0, 60))
HIST_BINS == 30
HIST_MAX == 60

Everyone == "Everyone"
\* the senders of the model; none of them is called 'Everyone'
TimingUsers == {"A", "B"}

\* The tables of the model are made of blocks: n rows by one user, each
\* gap seconds after the row before it.  The sizes lie on both sides of
\* line 755 and the gaps on both sides of the last bin edge.
MaxBlocks == 2
BlockSizes == {1, TIMING_MIN_MESSAGES - 1, TIMING_MIN_MESSAGES}
BlockGaps == {1, HIST_MAX, HIST_MAX + 1}
Blocks == [user : TimingUsers, n : BlockSizes, gap : BlockGaps]

RECURSIVE RowsOfBlocks(_, _)
RowsOfBlocks(blocks, date) ==
    IF blocks = <<>> THEN <<>>
    ELSE LET b == Head(blocks)
         IN  [k \in 1..b.n |-> [date |-> date + k * b.gap, user |-> b.user]]
             \o RowsOfBlocks(Tail(blocks), date + b.n * b.gap)

TimingTables == {RowsOfBlocks(blocks, 0) : blocks \in SeqsUpTo(Blocks, MaxBlocks)}

\* dfchat['user'].unique().tolist(): the users in the order of their first row
FirstRowOf(rows, u) ==
    CHOOSE i \in 1..Len(rows) :
        rows[i].user = u /\ \A j \in 1..(i - 1) : rows[j].user # u
Unique(rows) ==
    LET present == {rows[i].user : i \in 1..Len(rows)}
    IN  CHOOSE order \in [1..Cardinality(present) -> present] :
            \A a, b \in 1..Cardinality(present) :
                a < b => FirstRowOf(rows, order[a]) < FirstRowOf(rows, order[b])

\* the list the loop of line 749 runs over
TimingLoop(df) == <<Everyone>> \o Unique(df)

\* lines 750-753
TimingSub(df, u) ==
    IF u = Everyone THEN df
    ELSE SelectSeq(df, LAMBDA row : row.user = u)

\* the test of line 755 with <= for <
TooFewByOne(n) == n <= TIMING_MIN_MESSAGES
\* line 755
TooFew(n) == n < TIMING_MIN_MESSAGES

\* the edges of np.histogram: bins + 1 values from 0 to HIST_MAX
BinEdges == [i \in 1..(HIST_BINS + 1) |-> ((i - 1) * HIST_MAX) \div HIST_BINS]

\* the 1-based bin of np.histogram that holds the value, 0 when it lies
\* outside the range; the last bin holds its right edge too
BinOf(x) ==
    IF x < 0 \/ x > HIST_MAX THEN 0
    ELSE IF x = HIST_MAX THEN HIST_BINS
    ELSE (x * HIST_BINS) \div HIST_MAX + 1

\* np.histogram(timing, bins=30, range=(0, 60))[0] for the gaps of sub
Histogram(sub) ==
    LET bins == [k \in 1..(Len(sub) - 1) |-> BinOf(sub[k + 1].date - sub[k].date)]
    IN  [b \in 1..HIST_BINS |-> Cardinality({k \in DOMAIN bins : bins[k] = b})]

NoBins == <<"None">>

InitTiming ==
    /\ dftiming \in TimingTables
    /\ timingk = 0
    /\ timing_hist_users = <<>>
    /\ timing_hist_bins = NoBins
    /\ timing_hist_counts = <<>>
    /\ chat_timing = EmptyDict
    /\ timingpc = "loop"

IdleTiming ==
    /\ dftiming = <<>>
    /\ timingk = 0
    /\ timing_hist_users = <<>>
    /\ timing_hist_bins = NoBins
    /\ timing_hist_counts = <<>>
    /\ chat_timing = EmptyDict
    /\ timingpc = "idle"

\* an iteration of the loop of line 749 that ends at the continue of line 756
TimingSkip ==
    /\ timingpc = "loop"
    /\ timingk < Len(TimingLoop(dftiming))
    /\ LET u == TimingLoop(dftiming)[timingk + 1]
       IN  u # Everyone /\ TooFew(Len(TimingSub(dftiming, u)))
    /\ timingk' = timingk + 1
    /\ UNCHANGED <<dftiming, timing_hist_users, timing_hist_bins,
                   timing_hist_counts, chat_timing, timingpc, notTiming>>

\* an iteration of the loop of line 749 that reaches line 758
TimingUser ==
    /\ timingpc = "loop"
    /\ timingk < Len(TimingLoop(dftiming))
    /\ LET u == TimingLoop(dftiming)[timingk + 1]
           sub == TimingSub(dftiming, u)
           hist == Histogram(sub)
       IN  /\ u = Everyone \/ ~TooFew(Len(sub))
           /\ timing_hist_users' = Append(timing_hist_users, u)
           /\ timing_hist_bins' =
                  IF u = Everyone THEN SubSeq(BinEdges, 1, HIST_BINS)
                  ELSE timing_hist_bins
           /\ timing_hist_counts' =
                  Append(timing_hist_counts, [b \in 1..HIST_BINS |-> hist[b] * 100])
    /\ timingk' = timingk + 1
    /\ UNCHANGED <<dftiming, chat_timing, timingpc, notTiming>>

\* lines 780-786: the loop is exhausted, build the dict and return
TimingBuild ==
    /\ timingpc = "loop"
    /\ timingk = Len(TimingLoop(dftiming))
    /\ timing_hist_bins # NoBins
    /\ chat_timing' =
           [bin_val \in {timing_hist_bins[i] : i \in 1..Len(timing_hist_bins)} |->
               LET bin_i == CHOOSE i \in 1..Len(timing_hist_bins) :
                                timing_hist_bins[i] = bin_val
               IN  [u \in {timing_hist_users[j] : j \in 1..Len(timing_hist_users)} |->
                       LET j == CHOOSE k \in 1..Len(timing_hist_users) :
                                    /\ timing_hist_users[k] = u
                                    /\ \A l \in 1..Len(timing_hist_users) :
                                           timing_hist_users[l] = u => l <= k
                       IN  timing_hist_counts[j][bin_i]]]
    /\ timingpc' = "done"
    /\ UNCHANGED <<dftiming, timingk, timing_hist_users, timing_hist_bins,
                   timing_hist_counts, notTiming>>

NextTiming ==
    \/ TimingSkip
    \/ TimingUser
    \/ TimingBuild

\* the number of rows of the user in the table
RowsBy(u) == Cardinality({i \in 1..Len(dftiming) : dftiming[i].user = u})

----------------------------------------------------------------------------
(* calc_stats_per_tf                                                       *)
(* Dates are hours.  calc_stats is the call of the analyzers on the view;  *)
(* the model records the view it is given.                                 *)

HOURS_PER_DAY == 24
\* line 971: the window that -1 stands for, 100*365 days
FOREVER_DAYS == 36500

\* the dates the tables of the model are made of: 0, 12 hours, 1 day,
\* 1.5 days, 2.5 days and 10 days
TfDates == {0, 12, 24, 36, 60, 240}
\* the windows that may be requested, and the longest request
TfChoices == {1, 2, 31, 365, -1}
MaxTfs == 3

NoTf == -1

\* the elements of the finite set of numbers S, ascending
RECURSIVE SortedSeq(_)
SortedSeq(S) ==
    IF S = {} THEN <<>>
    ELSE LET m == CHOOSE x \in S : \A y \in S : x <= y
         IN  <<m>> \o SortedSeq(S \ {m})

\* sorted(list)
RECURSIVE Insert(_, _)
Insert(sorted, x) ==
    IF sorted = <<>> THEN <<x>>
    ELSE IF x < Head(sorted) THEN <<x>> \o sorted
         ELSE <<Head(sorted)>> \o Insert(Tail(sorted), x)
RECURSIVE Sorted(_)
Sorted(list) ==
    IF list = <<>> THEN <<>> ELSE Insert(Sorted(Tail(list)), Head(list))

\* lines 969-971: the first -1 of the list, if any, becomes 100*365
ReplaceForever(list) ==
    LET at == {i \in 1..Len(list) : list[i] = -1}
    IN  IF at = {} THEN list
        ELSE [list EXCEPT ![CHOOSE i \in at : \A j \in at : i <= j] = FOREVER_DAYS]

IndexMax(index) == index[Len(index)]
IndexMin(index) == index[1]

\* lines 975-976: the rows later than tf days before the newest row
TfView(index, tf) ==
    LET date_min == IndexMax(index) - tf * HOURS_PER_DAY
    IN  SelectSeq(index, LAMBDA d : d > date_min)

\* line 979: (max - min).days
TfReal(view) == (IndexMax(view) - IndexMin(view)) \div HOURS_PER_DAY

\* a test that never skips a window
NeverSameAsLast(tf_real, last) == FALSE
\* line 981
SameAsLast(tf_real, last) == tf_real = last

InitTf ==
    /\ dftf \in {SortedSeq(S) : S \in (SUBSET TfDates) \ {{}}}
    /\ timeframes \in SeqsUpTo(TfChoices, MaxTfs)
    /\ tfk = 0
    /\ last_tf_real = NoTf
    /\ allstats = EmptyDict
    /\ statscalls = <<>>
    /\ tfpc = "start"

IdleTf ==
    /\ dftf = <<>>
    /\ timeframes = <<>>
    /\ tfk = 0
    /\ last_tf_real = NoTf
    /\ allstats = EmptyDict
    /\ statscalls = <<>>
    /\ tfpc = "idle"

\* lines 965-971
TfConvert ==
    /\ tfpc = "start"
    /\ timeframes' = ReplaceForever(timeframes)
    /\ tfpc' = "loop"
    /\ UNCHANGED <<dftf, tfk, last_tf_real, allstats, statscalls, notTf>>

\* the window of the next iteration of the loop of line 973
TfNow == Sorted(timeframes)[tfk + 1]

\* an iteration that ends at the continue of line 981
TfSkip ==
    /\ tfpc = "loop"
    /\ tfk < Len(timeframes)
    /\ TfView(dftf, TfNow) # <<>>
    /\ SameAsLast(TfReal(TfView(dftf, TfNow)), last_tf_real)
    /\ tfk' = tfk + 1
    /\ UNCHANGED <<dftf, timeframes, last_tf_real, allstats, statscalls, tfpc, notTf>>

\* an iteration that calls calc_stats (lines 984-985)
TfStats ==
    /\ tfpc = "loop"
    /\ tfk < Len(timeframes)
    /\ TfView(dftf, TfNow) # <<>>
    /\ LET view == TfView(dftf, TfNow)
           tf_real == TfReal(view)
       IN  /\ ~SameAsLast(tf_real, last_tf_real)
           /\ allstats' = DictSet(allstats, tf_real, view)
           /\ statscalls' = Append(statscalls, tf_real)
           /\ last_tf_real' = tf_real
    /\ tfk' = tfk + 1
    /\ UNCHANGED <<dftf, timeframes, tfpc, notTf>>

\* an iteration whose view is empty (a window of -1 days, left by a second
\* -1 in the request): tf_real is not a number and differs from
\* last_tf_real, and calc_stats raises on the empty view (IndexError at
\* line 620)
TfRaises ==
    /\ tfpc = "loop"
    /\ tfk < Len(timeframes)
    /\ TfView(dftf, TfNow) = <<>>
    /\ tfpc' = "raised"
    /\ UNCHANGED <<dftf, timeframes, tfk, last_tf_real, allstats, statscalls, notTf>>

\* the loop is exhausted: return allstats
TfReturn ==
    /\ tfpc = "loop"
    /\ tfk = Len(timeframes)
    /\ tfpc' = "done"
    /\ UNCHANGED <<dftf, timeframes, tfk, last_tf_real, allstats, statscalls, notTf>>

NextTf ==
    \/ TfConvert
    \/ TfSkip
    \/ TfStats
    \/ TfRaises
    \/ TfReturn

\* the effective range, in whole days, of a window of tf days: the span
\* from the oldest row that is less than tf days older than the newest row
\* to the newest row
EffectiveDays(tf) ==
    LET newest == dftf[Len(dftf)]
        inside == {i \in 1..Len(dftf) : newest - dftf[i] < tf * 24}
        oldest == dftf[CHOOSE i \in inside : \A j \in inside : i <= j]
    IN  (newest - oldest) \div 24

\* the distinct effective day counts of the requested windows
DistinctDays == {EffectiveDays(timeframes[i]) : i \in 1..Len(timeframes)}

WithinDays(index, tf) ==
    SelectSeq(index, LAMBDA d : index[Len(index)] - d <= tf * 24)

\* C20: whenever calc_stats_per_tf calls calc_stats for a window of X days,
\* the view it passes holds exactly the rows whose date is at most X days
\* before the date of the newest row, a row exactly X days before it
\* included, and the table itself is unchanged.
C20_ViewIncludesBoundary ==
    [][statscalls' # statscalls =>
          /\ allstats'[last_tf_real'] = WithinDays(dftf, Sorted(timeframes)[tfk + 1])
          /\ dftf' = dftf]_vars

----------------------------------------------------------------------------
(* The characters of the text.  mk_dataframe and the analyzers look inside  *)
(* the tokens, so each token that stands for several characters is spelled *)
(* out here.                                                               *)

\* the timestamps of the model, as WhatsApp writes them
Spelling ==
    [tok \in Timestamps |->
        IF tok = "T1"
        THEN <<"2", "7", "/", "1", "1", "/", "2", "0", "1", "9", ",", " ", "2", "1",
             ":", "4", "0", ":", "5", "6">>
        ELSE <<"2", "7", "/", "1", "1", "/", "2", "0", "1", "9", ",", " ", "2", "1",
             ":", "4", "1", ":", "1", "0">>]

\* the marker phrases of normalize_whatsapp_line
PhraseSpelling ==
    "changed the subject to" :>
        <<"c", "h", "a", "n", "g", "e", "d", " ", "t", "h", "e", " ", "s", "u",
        "b", "j", "e", "c", "t", " ", "t", "o">>
    @@ "created" :>
        <<"c", "r", "e", "a", "t", "e", "d">>
    @@ "changed the group icon" :>
        <<"c", "h", "a", "n", "g", "e", "d", " ", "t", "h", "e", " ", "g", "r",
        "o", "u", "p", " ", "i", "c", "o", "n">>
    @@ "deleted the group icon" :>
        <<"d", "e", "l", "e", "t", "e", "d", " ", "t", "h", "e", " ", "g", "r",
        "o", "u", "p", " ", "i", "c", "o", "n">>
    @@ "changed this group's icon" :>
        <<"c", "h", "a", "n", "g", "e", "d", " ", "t", "h", "i", "s", " ", "g",
        "r", "o", "u", "p", "'", "s", " ", "i", "c", "o", "n">>
    @@ "deleted this group's icon" :>
        <<"d", "e", "l", "e", "t", "e", "d", " ", "t", "h", "i", "s", " ", "g",
        "r", "o", "u", "p", "'", "s", " ", "i", "c", "o", "n">>
    @@ "added" :>
        <<"a", "d", "d", "e", "d">>
    @@ "joined" :>
        <<"j", "o", "i", "n", "e", "d">>
    @@ "left" :>
        <<"l", "e", "f", "t">>
    @@ "'s security code changed" :>
        <<"'", "s", " ", "s", "e", "c", "u", "r", "i", "t", "y", " ", "c", "o",
        "d", "e", " ", "c", "h", "a", "n", "g", "e", "d">>
    @@ "Messages to this group are now secured with end-to-end encryption." :>
        <<"M", "e", "s", "s", "a", "g", "e", "s", " ", "t", "o", " ", "t", "h",
        "i", "s", " ", "g", "r", "o", "u", "p", " ", "a", "r", "e",
        " ", "n", "o", "w", " ", "s", "e", "c", "u", "r", "e", "d",
        " ", "w", "i", "t", "h", " ", "e", "n", "d", "-", "t", "o",
        "-", "e", "n", "d", " ", "e", "n", "c", "r", "y", "p", "t",
        "i", "o", "n", ".">>
    @@ "image omitted" :>
        <<"i", "m", "a", "g", "e", " ", "o", "m", "i", "t", "t", "e", "d">>
    @@ "GIF omitted" :>
        <<"G", "I", "F", " ", "o", "m", "i", "t", "t", "e", "d">>
    @@ "video omitted" :>
        <<"v", "i", "d", "e", "o", " ", "o", "m", "i", "t", "t", "e", "d">>
    @@ "audio omitted" :>
        <<"a", "u", "d", "i", "o", " ", "o", "m", "i", "t", "t", "e", "d">>
    @@ "sticker omitted" :>
        <<"s", "t", "i", "c", "k", "e", "r", " ", "o", "m", "i", "t", "t", "e",
        "d">>
    @@ "document omitted" :>
        <<"d", "o", "c", "u", "m", "e", "n", "t", " ", "o", "m", "i", "t", "t",
        "e", "d">>

\* the characters of one token
Spell(tok) ==
    IF tok \in Timestamps THEN Spelling[tok]
    ELSE IF tok \in DOMAIN PhraseSpelling THEN PhraseSpelling[tok]
    ELSE <<tok>>

\* the characters of a text
RECURSIVE Chars(_)
Chars(s) == IF s = <<>> THEN <<>> ELSE Spell(Head(s)) \o Chars(Tail(s))

\* int(s) for a string of decimal digits
DigitValue ==
    "0" :> 0 @@ "1" :> 1 @@ "2" :> 2 @@ "3" :> 3 @@ "4" :> 4
    @@ "5" :> 5 @@ "6" :> 6 @@ "7" :> 7 @@ "8" :> 8 @@ "9" :> 9
RECURSIVE ToInt(_)
ToInt(s) ==
    IF Len(s) = 1 THEN DigitValue[s[1]]
    ELSE 10 * ToInt(SubSeq(s, 1, Len(s) - 1)) + DigitValue[s[Len(s)]]

\* str.lower() of one character
LowerCase ==
    "A" :> "a" @@ "B" :> "b" @@ "C" :> "c" @@ "D" :> "d" @@ "E" :> "e"
    @@ "F" :> "f" @@ "G" :> "g" @@ "H" :> "h" @@ "I" :> "i" @@ "J" :> "j"
    @@ "K" :> "k" @@ "L" :> "l" @@ "M" :> "m" @@ "N" :> "n" @@ "O" :> "o"
    @@ "P" :> "p" @@ "Q" :> "q" @@ "R" :> "r" @@ "S" :> "s" @@ "T" :> "t"
    @@ "U" :> "u" @@ "V" :> "v" @@ "W" :> "w" @@ "X" :> "x" @@ "Y" :> "y"
    @@ "Z" :> "z"
Lower(v) ==
    [i \in 1..Len(v) |-> IF v[i] \in DOMAIN LowerCase THEN LowerCase[v[i]] ELSE v[i]]

\* len(v.split()): the number of maximal runs of characters that are not
\* whitespace
SplitLen(v) ==
    Cardinality({i \in 1..Len(v) :
                    /\ v[i] \notin Whitespace
                    /\ (i = 1 \/ v[i - 1] \in Whitespace)})

\* v.replace(c, "") counted: the number of characters c in v
CountChar(v, c) == Cardinality({i \in 1..Len(v) : v[i] = c})

\* whether p is a substring of v (str.contains with regex=False)
Contains(v, p) == \E i \in 0..Len(v) : OccursAt(v, p, i)

\* ' '.join(texts)
RECURSIVE Join(_)
Join(texts) ==
    IF texts = <<>> THEN <<>>
    ELSE IF Len(texts) = 1 THEN texts[1]
    ELSE texts[1] \o <<" ">> \o Join(Tail(texts))

\* a list without its repeats, in order of first appearance (unique())
RECURSIVE UniqueOf(_)
UniqueOf(s) ==
    IF s = <<>> THEN <<>>
    ELSE LET front == UniqueOf(SubSeq(s, 1, Len(s) - 1))
             x == s[Len(s)]
         IN  IF \E i \in 1..Len(front) : front[i] = x THEN front ELSE Append(front, x)

\* the items of s at the positions in keep, in order (boolean indexing)
RECURSIVE Take(_, _)
Take(s, keep) ==
    IF s = <<>> THEN <<>>
    ELSE Take(SubSeq(s, 1, Len(s) - 1), keep)
             \o (IF Len(s) \in keep THEN <<s[Len(s)]>> ELSE <<>>)

RECURSIVE SumSeq(_)
SumSeq(s) == IF s = <<>> THEN 0 ELSE Head(s) + SumSeq(Tail(s))


----------------------------------------------------------------------------
(* normalize_whatsapp as one call (no parsedlogfile), and mk_dataframe     *)

\* the loop of lines 148-164 from line k of the file on, and the return of
\* line 166; raised tells that parsedmsg[-1] raised IndexError
RECURSIVE NormalizeFrom(_, _, _, _)
NormalizeFrom(file, k, out, pending) ==
    IF k > Len(file) THEN [raised |-> FALSE, out |-> out]
    ELSE LET r == RemoveTok(file[k], LeftToRightMark)
             dstart == SearchDate(r)
             dend == dstart + 1
         IN  IF dstart # -1
             THEN NormalizeFrom(file, k + 1, FlushPending(out, pending),
                                normalize_whatsapp_line(r, dstart, dend, dend + 2))
             ELSE IF pending = EmptyStr THEN [raised |-> TRUE, out |-> out]
             ELSE NormalizeFrom(file, k + 1, out,
                                [pending EXCEPT ![4] = RStrip(pending[4]) \o r])

normalize_whatsapp(file) == NormalizeFrom(file, 1, <<>>, EmptyStr)

\* the datetime of lines 314-320, as <<year, month, day, hour, minute, second>>
ParseDate(datestr) ==
    LET v == Chars(datestr)
    IN  <<ToInt(Slice(v, 6, 10)), ToInt(Slice(v, 3, 5)), ToInt(Slice(v, 0, 2)),
          ToInt(Slice(v, 12, -6)), ToInt(Slice(v, -5, -3)), ToInt(SliceFrom(v, -2))>>

\* a < b for two datetimes
Earlier(a, b) ==
    \E k \in 1..6 : a[k] < b[k] /\ \A j \in 1..(k - 1) : a[j] = b[j]

\* the table mk_dataframe returns: one row per item of chatparsed, in the
\* order of chatparsed (set_index does not sort)
mk_dataframe(rows) ==
    [i \in 1..Len(rows) |->
        [date |-> ParseDate(rows[i][1]),
         user |-> rows[i][2],
         mtype |-> rows[i][3],
         content |-> rows[i][4],
         words |-> SplitLen(Chars(rows[i][4]))]]

\* what mk_dataframe hands to logging.debug
DebugMessages == <<"Parsing dates...", "parsing dates complete...">>

\* column col of the table
Column(df, col) == [i \in 1..Len(df) |-> df[i][col]]

\* df[df['mtype'] == mtype]
OfType(df, mtype) == Take(df, {i \in 1..Len(df) : df[i].mtype = mtype})

\* df[df['user'] == u]
OfUser(df, u) == Take(df, {i \in 1..Len(df) : df[i].user = u})

----------------------------------------------------------------------------
(* calc_word_analysis, calc_total_stats and calc_network                   *)

\* the text of line 688 for user u: the contents of the user's messages,
\* joined by a space
WordsOfUser(df_msg, u) == Chars(Join(Column(OfUser(df_msg, u), "content")))

\* the divisor of lines 697-698, round(len / 100.0, 3), in thousandths;
\* len is the length of the text without its "!" and "?"
NormDivisor(v) == Round((Len(v) - CountChar(v, "!") - CountChar(v, "?")) * 1000, 100)

\* calc_word_analysis: shout_u_out and ask_u_out, each value the quotient
\* num / den; raised tells that a divisor was 0 (ZeroDivisionError).  The
\* shares of capitals and the long words are not part of the model.
calc_word_analysis(df) ==
    LET dfchat_msg == OfType(df, "message")
        users == UniqueOf(Column(dfchat_msg, "user"))
        U == {users[i] : i \in 1..Len(users)}
    IN  [raised |-> \E u \in U : NormDivisor(WordsOfUser(dfchat_msg, u)) = 0,
         shout |-> [u \in U |->
                      [num |-> 1000 * CountChar(WordsOfUser(dfchat_msg, u), "!"),
                       den |-> NormDivisor(WordsOfUser(dfchat_msg, u))]],
         ask |-> [u \in U |->
                      [num |-> 1000 * CountChar(WordsOfUser(dfchat_msg, u), "?"),
                       den |-> NormDivisor(WordsOfUser(dfchat_msg, u))]]]

\* the largest entry of a list of naturals that is not empty
MaxOf(s) == CHOOSE x \in {s[i] : i \in 1..Len(s)} : \A i \in 1..Len(s) : s[i] <= x

\* calc_total_stats: raised tells that line 620 found no row of type message
\* and raised.  The entries 'oldest', 'newest' and 'duration' of 'date' are
\* not part of the model.
calc_total_stats(df) ==
    LET msgs == OfType(df, "message")
        subjects == OfType(df, "subject")
        most == Take(df, {i \in 1..Len(df) : df[i].words = MaxOf(Column(df, "words"))})
    IN  IF msgs = <<>> THEN [raised |-> TRUE]
        ELSE [raised |-> FALSE,
              lasttopic |-> IF subjects # <<>> THEN subjects[Len(subjects)].content
                            ELSE msgs[Len(msgs)].content,
              oldestmsg |-> df[1].content,
              newestmsg |-> df[Len(df)].content,
              words |-> SumSeq(Column(df, "words")),
              images |-> Len(OfType(df, "image")),
              messages |-> Len(msgs),
              icons |-> Len(OfType(df, "icon")),
              users |-> UniqueOf(Column(df, "user")),
              maxwords |-> [count |-> MaxOf(Column(df, "words")),
                            user |-> most[1].user,
                            message |-> most[1].content]]

\* aliasdict.get(u_object, []): the aliases listed under the key u_object
AliasesOf(aliases, u_object) ==
    UNION {aliases.items[i][2] : i \in {j \in 1..Len(aliases.items) : aliases.items[j][1] = u_object}}

\* counts_per_subject[u_subject] for one alias: the rows of u_subject whose
\* content holds the alias, both in lower case
CountsPerSubject(df, alias, u_subject) ==
    Cardinality({i \in 1..Len(df) :
                    /\ df[i].user = u_subject
                    /\ Contains(Lower(Chars(df[i].content)), Lower(Chars(alias)))})

\* what the loop of line 815 adds up for one subject and one object: a term
\* for each alias of the object and a term for the name of the object
Mentions(df, aliases, u_subject, u_object) ==
    SumOver(AliasesOf(aliases, u_object),
            [alias \in AliasesOf(aliases, u_object) |-> CountsPerSubject(df, alias, u_subject)])
        + CountsPerSubject(df, u_object, u_subject)

\* what calc_network returns without an alias map (lines 796-800)
EmptyNetwork == [total |-> 0, network |-> 0]

calc_network(df, aliases) ==
    IF aliases = None THEN EmptyNetwork
    ELSE LET users == UniqueOf(Column(df, "user"))
             U == {users[i] : i \in 1..Len(users)}
         IN  [total |-> [o \in U |->
                            SumOver(U, [s \in U |-> Mentions(df, aliases, s, o)])],
              network |->
                  [s \in {t \in U : \E o \in U : Mentions(df, aliases, t, o) > 0} |->
                      [o \in {p \in U : Mentions(df, aliases, s, p) > 0} |->
                          Mentions(df, aliases, s, o)]]]

----------------------------------------------------------------------------
(* main, load_config and parse_log.  Of the analyzers that calc_stats      *)
(* calls, parse_log is modelled with calc_word_analysis, calc_total_stats  *)
(* and calc_network, in the order of calc_stats, on the whole table.       *)

\* args.config when --config is not given
NoPath == "None"
\* a path that holds a YAML file, and a path that holds nothing
CfgPath == "cfg.yml"
MissingPath == "missing.yml"

NoError == "NoError"

\* line 54: the value config starts with
DefaultConfig == [isdict |-> TRUE, haskey |-> TRUE, user_aliases |-> None]

\* what yaml.safe_load can give for the file: None for an empty file, a
\* dict without the key user_aliases, a dict with the key
Configs ==
    {[isdict |-> FALSE, haskey |-> FALSE, user_aliases |-> None],
     [isdict |-> TRUE, haskey |-> FALSE, user_aliases |-> None],
     DefaultConfig,
     [isdict |-> TRUE, haskey |-> TRUE, user_aliases |-> Dict(<<<<<<"A">>, {<<"B">>}>>>>)],
     [isdict |-> TRUE, haskey |-> TRUE,
      user_aliases |-> Dict(<<<<<<"B">>, {<<"h", "i">>}>>>>)]}

\* the alias maps parse_log is called with
PipeAliases == {c.user_aliases : c \in {d \in Configs : d.isdict /\ d.haskey}}

\* the lines of the chat logs
LineHi ==
    <<"T1", ":", " ", "A", ":", " ", "H", "i", " ", "t", "h", "e", "r", "e", "!", "\n">>
LineHello ==
    <<"T2", ":", " ", "B", ":", " ", "h", "e", "l", "l", "o", "!", "!", "\n">>
LineBare == <<"T1", ":", " ", "A", ":", "\n">>
LineSubject ==
    <<"T2", ":", " ", "B", " ", "changed the subject to", " ", "x", "?", "\n">>

\* a message that holds the letters of both sender names
LineNames == <<"T1", ":", " ", "B", ":", " ", "a", "b", "\n">>

PipeLines == {LineHi, LineBlank, LineHello, LineBare, LineSubject, LineJoin, LineNames}

\* the longest chat log, in lines
MaxPipeLines == 3

InitParseLog ==
    /\ cfgfile = NoPath
    /\ cfgdisk = DefaultConfig
    /\ parsecfg = DefaultConfig
    /\ rawlog \in SeqsUpTo(PipeLines, MaxPipeLines)
    /\ paliases \in PipeAliases
    /\ pnormalized = <<>>
    /\ dfchat = <<>>
    /\ shouting = EmptyDict
    /\ asking = EmptyDict
    /\ totals = EmptyDict
    /\ network = EmptyDict
    /\ debuglog = <<>>
    /\ mainerr = NoError
    /\ mainpc = "normalize"

InitMain ==
    /\ cfgfile \in {NoPath, CfgPath, MissingPath}
    /\ cfgdisk \in Configs
    /\ parsecfg = DefaultConfig
    /\ rawlog \in SeqsUpTo(PipeLines, MaxPipeLines)
    /\ paliases = None
    /\ pnormalized = <<>>
    /\ dfchat = <<>>
    /\ shouting = EmptyDict
    /\ asking = EmptyDict
    /\ totals = EmptyDict
    /\ network = EmptyDict
    /\ debuglog = <<>>
    /\ mainerr = NoError
    /\ mainpc = "load_config"

IdleMain ==
    /\ cfgfile = NoPath
    /\ cfgdisk = DefaultConfig
    /\ parsecfg = DefaultConfig
    /\ rawlog = <<>>
    /\ paliases = None
    /\ pnormalized = <<>>
    /\ dfchat = <<>>
    /\ shouting = EmptyDict
    /\ asking = EmptyDict
    /\ totals = EmptyDict
    /\ network = EmptyDict
    /\ debuglog = <<>>
    /\ mainerr = NoError
    /\ mainpc = "idle"

\* the run ends with an exception that nothing catches
Raise(exception) ==
    /\ mainerr' = exception
    /\ mainpc' = "raised"

\* load_config: the file is opened and parsed (lines 56-58, 61)
LoadConfig ==
    /\ mainpc = "load_config"
    /\ cfgfile = CfgPath
    /\ parsecfg' = cfgdisk
    /\ mainpc' = "parse_log"
    /\ UNCHANGED <<cfgfile, cfgdisk, rawlog, paliases, pnormalized, dfchat, shouting,
                   asking, totals, network, debuglog, mainerr, notMain>>

\* load_config: the path holds no file (lines 59-60)
LoadConfigNotFound ==
    /\ mainpc = "load_config"
    /\ cfgfile = MissingPath
    /\ Raise("FileNotFoundError")
    /\ UNCHANGED <<cfgfile, cfgdisk, parsecfg, rawlog, paliases, pnormalized, dfchat,
                   shouting, asking, totals, network, debuglog, notMain>>

\* load_config(None): open(None) raises TypeError, which the except clause
\* of line 59 does not catch
LoadConfigNoPath ==
    /\ mainpc = "load_config"
    /\ cfgfile = NoPath
    /\ Raise("TypeError")
    /\ UNCHANGED <<cfgfile, cfgdisk, parsecfg, rawlog, paliases, pnormalized, dfchat,
                   shouting, asking, totals, network, debuglog, notMain>>

\* line 1166: parsecfg['user_aliases'] is evaluated and parse_log is called
CallParseLog ==
    /\ mainpc = "parse_log"
    /\ IF ~parsecfg.isdict THEN Raise("TypeError") /\ UNCHANGED paliases
       ELSE IF ~parsecfg.haskey THEN Raise("KeyError") /\ UNCHANGED paliases
       ELSE /\ paliases' = parsecfg.user_aliases
            /\ mainpc' = "normalize"
            /\ UNCHANGED mainerr
    /\ UNCHANGED <<cfgfile, cfgdisk, parsecfg, rawlog, pnormalized, dfchat, shouting,
                   asking, totals, network, debuglog, notMain>>

\* line 80: chatnormalized = normalize_whatsapp(chatlog, parsedlogfile)
PipeNormalize ==
    /\ mainpc = "normalize"
    /\ LET res == normalize_whatsapp(rawlog)
       IN  IF res.raised THEN Raise("IndexError") /\ UNCHANGED pnormalized
           ELSE /\ pnormalized' = res.out
                /\ mainpc' = "dedup"
                /\ UNCHANGED mainerr
    /\ UNCHANGED <<cfgfile, cfgdisk, parsecfg, rawlog, paliases, dfchat, shouting,
                   asking, totals, network, debuglog, notMain>>

\* line 82: dedup_usernames(chatnormalized, useraliases)
PipeDedup ==
    /\ mainpc = "dedup"
    /\ pnormalized' = DedupRows(pnormalized, paliases)
    /\ mainpc' = "mk_dataframe"
    /\ UNCHANGED <<cfgfile, cfgdisk, parsecfg, rawlog, paliases, dfchat, shouting,
                   asking, totals, network, debuglog, mainerr, notMain>>

\* line 84: dfchat = mk_dataframe(chatnormalized)
PipeMkDataframe ==
    /\ mainpc = "mk_dataframe"
    /\ dfchat' = mk_dataframe(pnormalized)
    /\ debuglog' = debuglog \o DebugMessages
    /\ mainpc' = "words"
    /\ UNCHANGED <<cfgfile, cfgdisk, parsecfg, rawlog, paliases, pnormalized, shouting,
                   asking, totals, network, mainerr, notMain>>

\* calc_stats, line 911: calc_word_analysis(dfchat)
PipeWordAnalysis ==
    /\ mainpc = "words"
    /\ LET res == calc_word_analysis(dfchat)
       IN  IF res.raised THEN Raise("ZeroDivisionError") /\ UNCHANGED <<shouting, asking>>
           ELSE /\ shouting' = res.shout
                /\ asking' = res.ask
                /\ mainpc' = "totals"
                /\ UNCHANGED mainerr
    /\ UNCHANGED <<cfgfile, cfgdisk, parsecfg, rawlog, paliases, pnormalized, dfchat,
                   totals, network, debuglog, notMain>>

\* calc_stats, line 917: calc_total_stats(dfchat)
PipeTotalStats ==
    /\ mainpc = "totals"
    /\ LET res == calc_total_stats(dfchat)
       IN  IF res.raised THEN Raise("IndexError") /\ UNCHANGED totals
           ELSE /\ totals' = res
                /\ mainpc' = "network"
                /\ UNCHANGED mainerr
    /\ UNCHANGED <<cfgfile, cfgdisk, parsecfg, rawlog, paliases, pnormalized, dfchat,
                   shouting, asking, network, debuglog, notMain>>

\* calc_stats, line 921: calc_network(dfchat, useraliases); parse_log ends
PipeNetwork ==
    /\ mainpc = "network"
    /\ network' = calc_network(dfchat, paliases)
    /\ mainpc' = "done"
    /\ UNCHANGED <<cfgfile, cfgdisk, parsecfg, rawlog, paliases, pnormalized, dfchat,
                   shouting, asking, totals, debuglog, mainerr, notMain>>

NextParseLog ==
    \/ PipeNormalize
    \/ PipeDedup
    \/ PipeMkDataframe
    \/ PipeWordAnalysis
    \/ PipeTotalStats
    \/ PipeNetwork

NextMain ==
    \/ LoadConfig
    \/ LoadConfigNotFound
    \/ LoadConfigNoPath
    \/ CallParseLog
    \/ NextParseLog

\* the chat log of the end-to-end scenario
Scenario == <<LineHi, LineBlank, LineHello>>

\* C11: for the chat log [A: "Hi there!", a blank line, B: "hello!!"] the
\* run of normalize, mk_dataframe and the analyzers does not raise and ends
\* with 2 messages, 3 words and a shouting intensity above zero for B.
C11_EndToEndScenario ==
    rawlog = Scenario =>
        /\ mainpc # "raised"
        /\ mainpc = "done" =>
               /\ totals.messages = 2
               /\ totals.words = 3
               /\ <<"B">> \in DOMAIN shouting
               /\ shouting[<<"B">>].num > 0

\* C12: a run of main without --config never ends with an exception of the
\* configuration loading; once parse_log is entered the alias map is None,
\* alias resolution leaves the senders alone and calc_network returns its
\* empty result.
C12_NoConfigIsNoError ==
    cfgfile = NoPath =>
        /\ mainerr \notin {"TypeError", "KeyError", "FileNotFoundError"}
        /\ mainpc \notin {"load_config", "parse_log", "raised"} => paliases = None
        /\ mainpc = "done" => network = EmptyNetwork

\* whether some row has a timestamp earlier than that of the row before it
Descending(rows) ==
    \E i \in 2..Len(rows) : Earlier(ParseDate(rows[i][1]), ParseDate(rows[i - 1][1]))

\* C13: when the normalized sequence holds an event earlier than the event
\* before it, mk_dataframe keeps the rows in input order and reports the
\* anomaly: it raises or it logs a message other than its two progress
\* messages.
C13_NonMonotonicReported ==
    (mainpc = "words" /\ Descending(pnormalized)) =>
        /\ Column(dfchat, "content") = [i \in 1..Len(pnormalized) |-> pnormalized[i][4]]
        /\ debuglog # DebugMessages

\* the weight of the edge from u_subject to u_object in the result
EdgeWeight(net, u_subject, u_object) ==
    IF u_subject \in DOMAIN net.network
    THEN IF u_object \in DOMAIN net.network[u_subject]
         THEN net.network[u_subject][u_object]
         ELSE 0
    ELSE 0

\* the rows of u_subject whose content holds the name of u_object or one of
\* its aliases, in lower case, each row once
MentioningRows(df, aliases, u_subject, u_object) ==
    {i \in 1..Len(df) :
        /\ df[i].user = u_subject
        /\ \E name \in AliasesOf(aliases, u_object) \cup {u_object} :
               Contains(Lower(Chars(df[i].content)), Lower(Chars(name)))}

\* C23: with an alias map, the weight of every edge (subject, object) is
\* the number of rows of the subject that hold a name or alias of the
\* object, each row counted once, so it is at most the number of rows of
\* the subject; the total of every object is the sum of the weights of
\* its incoming edges.
C23_EdgeCountsEachMessageOnce ==
    (mainpc = "done" /\ paliases # None) =>
        LET U == {dfchat[i].user : i \in 1..Len(dfchat)}
        IN  \A o \in U :
                /\ \A s \in U :
                       /\ EdgeWeight(network, s, o)
                              = Cardinality(MentioningRows(dfchat, paliases, s, o))
                       /\ EdgeWeight(network, s, o) <= Len(OfUser(dfchat, s))
                /\ network.total[o]
                       = SumOver(U, [s \in U |-> EdgeWeight(network, s, o)])

----------------------------------------------------------------------------
(* normalize_whatsapp, called with parsedlogfile (lines 120-143)           *)

\* the longest input file, in lines
MaxSinkLines == 3

\* ",".join(parsedmsg)
CommaJoin(msg) == msg[1] \o <<",">> \o msg[2] \o <<",", msg[3], ",">> \o msg[4]

InitSink ==
    /\ wchatlog \in SeqsUpTo(LineSet, MaxSinkLines)
    /\ wlineno = 0
    /\ wnormalized = <<>>
    /\ wparsedmsg = EmptyStr
    /\ wfile = <<>>
    /\ wfaults = 0
    /\ wpc = "loop"

IdleSink ==
    /\ wchatlog = <<>>
    /\ wlineno = 0
    /\ wnormalized = <<>>
    /\ wparsedmsg = EmptyStr
    /\ wfile = <<>>
    /\ wfaults = 0
    /\ wpc = "idle"

\* the line the loop reads next, with the left-to-right marks removed
SinkLine == RemoveTok(wchatlog[wlineno + 1], LeftToRightMark)

\* a line that holds a timestamp: the pending message, if any, is written
\* and appended, and the line starts the next message
SinkNewMessageLine ==
    /\ wpc = "loop"
    /\ wlineno < Len(wchatlog)
    /\ SearchDate(SinkLine) # -1
    /\ LET r == SinkLine
           dstart == SearchDate(r)
           dend == dstart + 1
       IN  /\ wfile' = IF wparsedmsg # EmptyStr
                       THEN Append(wfile, CommaJoin(wparsedmsg)) ELSE wfile
           /\ wnormalized' = FlushPending(wnormalized, wparsedmsg)
           /\ wparsedmsg' = normalize_whatsapp_line(r, dstart, dend, dend + 2)
    /\ wlineno' = wlineno + 1
    /\ UNCHANGED <<wchatlog, wfaults, wpc, notSink>>

\* the same line when w.write fails: the OSError of line 132 is caught
\* nowhere and ends normalize_whatsapp
SinkWriteFails ==
    /\ wpc = "loop"
    /\ wlineno < Len(wchatlog)
    /\ SearchDate(SinkLine) # -1
    /\ wparsedmsg # EmptyStr
    /\ wfaults' = wfaults + 1
    /\ wpc' = "raised"
    /\ UNCHANGED <<wchatlog, wlineno, wnormalized, wparsedmsg, wfile, notSink>>

\* a line without timestamp, a message pending
SinkContinuationLine ==
    /\ wpc = "loop"
    /\ wlineno < Len(wchatlog)
    /\ SearchDate(SinkLine) = -1
    /\ wparsedmsg # EmptyStr
    /\ wparsedmsg' = [wparsedmsg EXCEPT ![4] = RStrip(wparsedmsg[4]) \o SinkLine]
    /\ wlineno' = wlineno + 1
    /\ UNCHANGED <<wchatlog, wnormalized, wfile, wfaults, wpc, notSink>>

\* a line without timestamp while parsedmsg is still "": IndexError
SinkContinuationRaises ==
    /\ wpc = "loop"
    /\ wlineno < Len(wchatlog)
    /\ SearchDate(SinkLine) = -1
    /\ wparsedmsg = EmptyStr
    /\ wpc' = "raised"
    /\ UNCHANGED <<wchatlog, wlineno, wnormalized, wparsedmsg, wfile, wfaults, notSink>>

\* the loop is exhausted: the files are closed and chatnormalized returned
SinkReturn ==
    /\ wpc = "loop"
    /\ wlineno = Len(wchatlog)
    /\ wpc' = "returned"
    /\ UNCHANGED <<wchatlog, wlineno, wnormalized, wparsedmsg, wfile, wfaults, notSink>>

NextSink ==
    \/ SinkNewMessageLine
    \/ SinkWriteFails
    \/ SinkContinuationLine
    \/ SinkContinuationRaises
    \/ SinkReturn

\* C14: a write to parsedlogfile that fails does not end normalize_whatsapp
\* with an exception, and the sequence returned after a failed write is the
\* sequence returned without a sink.
C14_SinkFailureNotFatal ==
    wfaults > 0 =>
        /\ wpc # "raised"
        /\ wpc = "returned" => wnormalized = normalize_whatsapp(wchatlog).out

----------------------------------------------------------------------------
(* The specifications, one per function.                                   *)

NormStart ==
    /\ InitNorm
    /\ IdleDedup /\ IdleMono /\ IdleActive
    /\ IdleLonely /\ IdleTiming /\ IdleTf
    /\ IdleMain /\ IdleSink /\ IdleLine
SpecNorm == NormStart /\ [][NextNorm]_vars

DedupStart ==
    /\ InitDedup
    /\ IdleNorm /\ IdleMono /\ IdleActive
    /\ IdleLonely /\ IdleTiming /\ IdleTf
    /\ IdleMain /\ IdleSink /\ IdleLine
SpecDedup == DedupStart /\ [][NextDedup]_vars

MonoBegin ==
    /\ InitMono
    /\ IdleNorm /\ IdleDedup /\ IdleActive
    /\ IdleLonely /\ IdleTiming /\ IdleTf
    /\ IdleMain /\ IdleSink /\ IdleLine
SpecMono == MonoBegin /\ [][NextMono]_vars

ActiveStart ==
    /\ InitActive
    /\ IdleNorm /\ IdleDedup /\ IdleMono
    /\ IdleLonely /\ IdleTiming /\ IdleTf
    /\ IdleMain /\ IdleSink /\ IdleLine
SpecActive == ActiveStart /\ [][NextActive]_vars

LonelyStart ==
    /\ InitLonely
    /\ IdleNorm /\ IdleDedup /\ IdleMono
    /\ IdleActive /\ IdleTiming /\ IdleTf
    /\ IdleMain /\ IdleSink /\ IdleLine
SpecLonely == LonelyStart /\ [][NextLonely]_vars

TimingStart ==
    /\ InitTiming
    /\ IdleNorm /\ IdleDedup /\ IdleMono
    /\ IdleActive /\ IdleLonely /\ IdleTf
    /\ IdleMain /\ IdleSink /\ IdleLine
SpecTiming == TimingStart /\ [][NextTiming]_vars

TfStart ==
    /\ InitTf
    /\ IdleNorm /\ IdleDedup /\ IdleMono
    /\ IdleActive /\ IdleLonely /\ IdleTiming
    /\ IdleMain /\ IdleSink /\ IdleLine
SpecTf == TfStart /\ [][NextTf]_vars

ParseLogStart ==
    /\ InitParseLog
    /\ IdleNorm /\ IdleDedup /\ IdleMono /\ IdleActive
    /\ IdleLonely /\ IdleTiming /\ IdleTf /\ IdleSink /\ IdleLine
SpecParseLog == ParseLogStart /\ [][NextParseLog]_vars

MainStart ==
    /\ InitMain
    /\ IdleNorm /\ IdleDedup /\ IdleMono /\ IdleActive
    /\ IdleLonely /\ IdleTiming /\ IdleTf /\ IdleSink /\ IdleLine
SpecMain == MainStart /\ [][NextMain]_vars

SinkStart ==
    /\ InitSink
    /\ IdleNorm /\ IdleDedup /\ IdleMono /\ IdleActive
    /\ IdleLonely /\ IdleTiming /\ IdleTf /\ IdleMain /\ IdleLine
SpecSink == SinkStart /\ [][NextSink]_vars

LineStart ==
    /\ InitLine
    /\ IdleNorm /\ IdleDedup /\ IdleMono /\ IdleActive
    /\ IdleLonely /\ IdleTiming /\ IdleTf /\ IdleMain /\ IdleSink
SpecLine == LineStart /\ [][NextLineCall]_vars

====
